---- MODULE Spec2Model ----
(***************************************************************************)
(* ctrlSPEAK: audio capture, segmentation, transcription queue, streaming  *)
(* session and shutdown, modelled as interleaved threads.                  *)
(*                                                                         *)
(* Threads: "audio" (the PortAudio callback thread running                 *)
(* AudioManager.audio_callback), "key" (the pynput key listener running    *)
(* on_activate), "hot" (the pynput hotkey listener running exit_app),      *)
(* "main" (ctrlspeak.main), "worker" (transcription_worker) and "sworker"  *)
(* (streaming._streaming_worker).  One step of a thread is one source      *)
(* statement that reads or writes shared state; purely local statements    *)
(* are folded into the step before them.                                   *)
(*                                                                         *)
(* A numpy array is a sequence of runs [id, off, n]: n consecutive samples *)
(* of captured buffer id, starting at sample off of that buffer.           *)
(***************************************************************************)
EXTENDS Integers, Sequences, FiniteSets, TLC

\* ------------------------------------------------------------- bounds
\* audio callbacks that pass the is_collecting gate, per behaviour
MaxCallbacks == 4
\* recording sessions started, per behaviour
MaxSessions == 1
\* items a producer puts on the worker's queue, per behaviour
MaxItems == 3
\* audio callbacks that pass the gate in a behaviour that shuts down
ShutdownCallbacks == 1
\* audio callbacks that pass the gate in a streaming session with its races
StreamCallbacks == 1
\* audio callbacks that pass the gate while the streaming worker lags
LagCallbacks == 51
\* audio callbacks fed one after another to a queue-mode recording
SegCallbacks == 14
\* audio callbacks fed one after another with buffers of any size
MixedCallbacks == 4
\* calls made one after another on the recording interface
MaxCalls == 3
\* audio callbacks that arrive between the calls
ApiCallbacks == 2
\* entries selected in the model and device lists, per behaviour
MaxSelections == 2
\* recording sessions started one after another, per behaviour
MaxRecordings == 2
\* audio callbacks that pass the gate in a behaviour of several sessions
SessionCallbacks == 3
\* audio callbacks that pass the gate while the TUI swaps
SwapCallbacks == 1

\* ---------------------------------------------------------- constants
SAMPLE_RATE == 16000
\* RMS_THRESHOLD = 0.01, in thousandths
RMS_THRESHOLD_MILLI == 10
\* SILENCE_DURATION_S = 1.0, in milliseconds
SILENCE_DURATION_MS == 1000
\* MIN_CHUNK_DURATION_S = 0.5, in milliseconds
MIN_CHUNK_DURATION_MS == 500

\* frames per callback buffer in queue mode: 0.25 s and 0.5 s, whose float
\* durations and sums are exact
FrameSizes == {4000, 8000}
\* rms of a buffer in thousandths: below, and exactly at, the threshold
RmsLevels == {5, 10}

\* a work item: the None sentinel, or a segment (an array)
None == [none |-> TRUE, data |-> <<>>]
Segment(a) == [none |-> FALSE, data |-> a]

\* -------------------------------------------------------------- arrays
RECURSIVE NpLen(_)
\* len(array): the number of samples
NpLen(a) == IF a = <<>> THEN 0 ELSE Head(a).n + NpLen(Tail(a))

RECURSIVE NpConcatenate(_)
\* np.concatenate(list of arrays)
NpConcatenate(l) == IF l = <<>> THEN <<>> ELSE Head(l) \o NpConcatenate(Tail(l))

\* indata.copy() of a buffer of `frames` samples, the id-th captured buffer
NewChunk(id, frames) ==
  IF frames = 0 THEN <<>> ELSE << [id |-> id, off |-> 0, n |-> frames] >>

\* float(frames) / SAMPLE_RATE, in milliseconds
DurationMs(frames) == (frames * 1000) \div SAMPLE_RATE

\* the ids of the captured buffers with samples in an array
ChunkIds(a) == { a[i].id : i \in 1..Len(a) }

VARIABLES
  \* AudioManager
  is_collecting, audio_buffer, current_silence_s, is_potentially_speaking,
  streaming_mode,
  \* state.transcription_queue (queue.Queue: items and unfinished_tasks)
  transcription_queue, unfinished_tasks,
  \* state.transcribed_chunks
  transcribed_chunks,
  \* ctrlspeak.main_loop_active, and whether the input stream is open
  main_loop_active, stream_open,
  \* whether the keyboard listeners still deliver key events
  listening,
  \* control: each thread's position, the position stop_recording returns to
  pc, ret,
  \* locals: the callback's chunk, frames and rms; each thread's segment_data;
  \* the worker's audio_data and text; on_activate's final_text
  cb, segment_data, audio_data, text, final_text,
  \* history: the items put, in order; the task_done calls made for the item
  \* the worker holds; how its backend call ended; whether task_done raised
  \* ValueError; the puts made before join returned; counters of the bounds
  put_log, acks, outcome, over_ack, puts_at_join, n_callbacks, n_sessions,
  \* AudioManager, streaming mode: the list of buffered arrays, whether a chunk
  \* callback is registered (on_streaming_chunk) or None, the chunk size
  streaming_buffer, streaming_callback, streaming_chunk_size_samples,
  \* streaming.py globals: _streaming_queue (None, or a bounded queue.Queue with
  \* its items and unfinished_tasks) and _streaming_stop_event
  streaming_queue, streaming_stop_event,
  \* the backend's streaming state: the chunks passed to stream_chunk since
  \* init_streaming, and whether finalize_streaming has been called
  stream_chunks, finalized,
  \* locals: _streaming_audio_callback's total_samples, audio_data and
  \* chunk_samples; stop_streaming's remaining_samples and remaining_audio;
  \* on_streaming_chunk's arguments per calling thread; the streaming worker's
  \* queue_item
  s_local, remaining, osc_arg, queue_item,
  \* control: the position AudioManager.stop_streaming returns to
  manager_ret,
  \* history of the current session: the sizes of the buffers that passed the
  \* gate, the on_chunk calls made, the items put on the streaming queue, and
  \* the number of on_chunk calls and of puts made when
  \* AudioManager.stop_streaming returned (-1 before it has)
  fed, on_chunk_log, sput_log, chunks_at_stop, sputs_at_stop,
  \* history of a recording driven call by call: the frames and rms of the
  \* buffers fed, and the call in progress with the one before it
  heard, call,
  \* state.stt_model (None, or a model instance with its type and whether its
  \* weights are loaded), state.model_type, state.model_loaded
  stt_model, model_type, model_loaded,
  \* AppState: is_recording (copied from is_collecting by a timer),
  \* is_loading_model, loaded_model, selected_model, loaded_device,
  \* selected_device; CtrlSpeakApp.model_swap_lock
  app_is_recording, is_loading_model, loaded_model, selected_model,
  loaded_device, selected_device, model_swap_lock,
  \* AudioManager.input_device and current_stream (the device the open stream
  \* captures from, and how many streams were opened before it)
  input_device, current_stream,
  \* the event loop's tasks: each task's position and locals, and the number
  \* of list selections made
  upc, ulocal, n_selections,
  \* the transcription worker's temp_file_path (0 for None, else the file made
  \* for the n-th item dequeued) and the temporary files that exist
  temp_file_path, temp_files,
  \* the warnings and errors logged by on_streaming_chunk and the audio
  \* callback, in order
  warnings,
  \* hotkeys._current_session_streaming, and where on_activate is after its
  \* stop call returned ("none" when it is not there)
  current_session_streaming, activate_pc,
  \* the history database: the rows of table history and the largest id
  \* AUTOINCREMENT has handed out; the last add_entry call (its number, its
  \* text and what it returned), the ids returned before it, and the number
  \* of calls made
  history_rows, history_seq, add_call, returned_ids, n_history_calls

audioVars == <<is_collecting, audio_buffer, current_silence_s,
               is_potentially_speaking, streaming_mode>>
queueVars == <<transcription_queue, unfinished_tasks, put_log>>
workerVars == <<audio_data, text, acks, outcome, over_ack>>
mainVars == <<main_loop_active, stream_open, listening>>
boundVars == <<n_callbacks, n_sessions>>
managerVars == <<streaming_buffer, streaming_callback,
                 streaming_chunk_size_samples>>
globalVars == <<streaming_queue, streaming_stop_event>>
backendVars == <<stream_chunks, finalized>>
localVars == <<s_local, remaining, osc_arg, queue_item, manager_ret>>
historyVars == <<fed, on_chunk_log, sput_log, chunks_at_stop, sputs_at_stop>>
streamVars == <<managerVars, globalVars, backendVars, localVars, historyVars>>
harnessVars == <<heard, call>>
modelVars == <<stt_model, model_type, model_loaded>>
appVars == <<app_is_recording, is_loading_model, loaded_model, selected_model,
             loaded_device, selected_device, model_swap_lock>>
deviceVars == <<input_device, current_stream>>
taskVars == <<upc, ulocal, n_selections>>
uiVars == <<modelVars, appVars, deviceVars, taskVars>>
fileVars == <<temp_file_path, temp_files>>
logVars == <<warnings>>
routeVars == <<current_session_streaming, activate_pc>>
dbVars == <<history_rows, history_seq, add_call, returned_ids,
           n_history_calls>>
extVars == <<harnessVars, uiVars, fileVars, logVars, routeVars, dbVars>>

vars == <<is_collecting, audio_buffer, current_silence_s,
          is_potentially_speaking, streaming_mode, transcription_queue,
          unfinished_tasks, transcribed_chunks, main_loop_active, stream_open,
          listening, pc, ret, cb, segment_data, audio_data, text, final_text, put_log,
          acks, outcome, over_ack, puts_at_join, n_callbacks, n_sessions,
          streaming_buffer, streaming_callback, streaming_chunk_size_samples,
          streaming_queue, streaming_stop_event, stream_chunks, finalized,
          s_local, remaining, osc_arg, queue_item, manager_ret, fed,
          on_chunk_log, sput_log, chunks_at_stop, sputs_at_stop, heard, call,
          stt_model, model_type, model_loaded, app_is_recording,
          is_loading_model, loaded_model, selected_model, loaded_device,
          selected_device, model_swap_lock, input_device, current_stream,
          upc, ulocal, n_selections, temp_file_path, temp_files,
          warnings, current_session_streaming, activate_pc, history_rows,
          history_seq, add_call, returned_ids, n_history_calls>>

Threads == {"audio", "key", "hot", "main", "worker", "sworker"}
\* the threads that can run stop_recording
Stoppers == {"key", "hot", "main"}

Goto(t, l) == pc' = [pc EXCEPT ![t] = l]

\* ------------------------------------------------- models and tasks
\* state.stt_model: None, or an instance of a model type whose weights are
\* loaded or not
NoModel == [type |-> "None", weights |-> FALSE]
Model(type, weights) == [type |-> type, weights |-> weights]

\* the entries of the model list (AppState.available_models) used here
ModelAliases == {"parakeet", "canary"}

\* ModelFactory.resolve_model_alias: _DEFAULT_ALIASES.get(name, name)
ResolveModelAlias(name) ==
  CASE name = "parakeet" -> "mlx-community/parakeet-tdt-0.6b-v3"
    [] name = "canary" -> "nvidia/canary-1b-flash"
    [] name = "nemotron" -> "nvidia/nemotron-speech-streaming-en-0.6b"
    [] OTHER -> name

\* the input devices of the device list
Devices == {"dev1", "dev2"}

\* the tasks of the Textual event loop: two model selections and one device
\* selection, each with the hot swap it awaits
ModelTasks == {"ui1", "ui2"}
Tasks == ModelTasks \cup {"dev"}

\* a task's locals: the selected entry, hot_swap_model's old_model_type,
\* old_model (kept here after its del) and new_model, and what the swap
\* returned
NoTaskLocal == [selected |-> "None", old_model_type |-> "None",
                old_model |-> NoModel, new_model |-> NoModel,
                result |-> "none"]

\* no call is in progress and none was made
NoCall == [op |-> "none", prev |-> "none", active |-> FALSE, n |-> 0,
           puts |-> 0]

\* no add_entry call was made
NoAddCall == [n |-> 0, text |-> <<>>, none |-> TRUE, id |-> 0]

\* ------------------------------------------------------- queue.Queue
\* a put that places the item at the head of the queue
QueuePutFirst(item) ==
  /\ transcription_queue' = <<item>> \o transcription_queue
  /\ unfinished_tasks' = unfinished_tasks + 1
  /\ put_log' = Append(put_log, item)

\* Queue.put(item) on the unbounded transcription queue
QueuePut(item) ==
  /\ transcription_queue' = Append(transcription_queue, item)
  /\ unfinished_tasks' = unfinished_tasks + 1
  /\ put_log' = Append(put_log, item)

\* a drain that waits for the queue to be empty, not for the acknowledgements
QueueJoinReturnsWhenEmpty == transcription_queue = <<>>

\* Queue.join() returns when no put item is left unacknowledged
QueueJoinReturns == unfinished_tasks = 0

\* Queue.task_done(): one put item acknowledged; ValueError when none is left
TaskDone ==
  IF unfinished_tasks > 0
    THEN /\ unfinished_tasks' = unfinished_tasks - 1
         /\ acks' = acks + 1
         /\ UNCHANGED over_ack
    ELSE /\ over_ack' = TRUE
         /\ UNCHANGED <<unfinished_tasks, acks>>

\* ------------------------------------------- transcription_worker
\* what the backend returns for a segment: a text naming its first buffer
BackendText(a) == << a[1].id >>

\* how sf.write / tempfile can end: written, sf.write raises, or
\* NamedTemporaryFile raises (caught by the loop's outer handler)
WriteOutcomes == {"written", "write_error", "unexpected_error"}
\* how model.transcribe_batch can end: a text, an empty text, a result that
\* is no non-empty list, an exception, or never
BackendOutcomes == {"text", "empty_text", "bad_result", "raise", "hang"}

\* transcription.py:24  audio_data = work_queue.get()
WorkerGet ==
  /\ pc["worker"] = "get"
  /\ transcription_queue # <<>>
  /\ audio_data' = Head(transcription_queue)
  /\ transcription_queue' = Tail(transcription_queue)
  /\ acks' = 0
  /\ outcome' = "taken"
  /\ Goto("worker", "got")
  /\ UNCHANGED <<extVars, streamVars, audioVars, unfinished_tasks, put_log, transcribed_chunks,
                 mainVars, ret, cb, segment_data, text, final_text, over_ack,
                 puts_at_join, boundVars>>

\* transcription.py:26-37  the sentinel and the empty array
WorkerGot ==
  /\ pc["worker"] = "got"
  /\ IF audio_data.none
       THEN /\ TaskDone
            /\ outcome' = "sentinel"
            /\ Goto("worker", "exited")
       ELSE IF NpLen(audio_data.data) = 0
         THEN /\ TaskDone
              /\ outcome' = "empty_audio"
              /\ Goto("worker", "get")
         ELSE /\ Goto("worker", "write")
              /\ UNCHANGED <<unfinished_tasks, acks, outcome, over_ack>>
  /\ UNCHANGED <<extVars, streamVars, audioVars, transcription_queue, put_log, transcribed_chunks,
                 mainVars, ret, cb, segment_data, audio_data, text, final_text,
                 puts_at_join, boundVars>>

\* a handler that leaves the item unacknowledged
NoAck == UNCHANGED <<extVars, unfinished_tasks, acks, over_ack>>

\* the handler of sf.write's exception, transcription.py:50-56
WriteErrorAck == TaskDone

\* the loop's outer handler, transcription.py:79-86
UnexpectedErrorAck == TaskDone

\* temp_file_path = None
NoFile == 0

\* the file NamedTemporaryFile makes for the item the worker holds, named by
\* the number of items dequeued
NewTempFile == Len(put_log) - Len(transcription_queue)

\* an unlink that leaves the file in place
UnlinkNothing(files, path) == files

\* os.unlink(path)
Unlink(files, path) == files \ {path}

\* transcription.py:87-93  finally: if temp_file_path and
\* os.path.exists(temp_file_path): os.unlink(temp_file_path)
FinallyUnlink(files, path) ==
  IF path # NoFile /\ path \in files THEN Unlink(files, path) ELSE files

\* transcription.py:39-56  the temp file and sf.write.  After sf.write's
\* exception the handler unlinks the file (53-55) and `continue` runs the
\* finally block; an unexpected exception, raised by NamedTemporaryFile
\* before or after it made the file, runs the outer handler and the finally
\* block.  The next iteration starts with temp_file_path = None (line 22).
WorkerWrite ==
  /\ pc["worker"] = "write"
  /\ \E o \in WriteOutcomes :
       IF o = "written"
         THEN /\ Goto("worker", "transcribe")
              /\ temp_file_path' = NewTempFile
              /\ temp_files' = temp_files \cup {NewTempFile}
              /\ UNCHANGED <<unfinished_tasks, acks, outcome, over_ack>>
         ELSE /\ IF o = "write_error" THEN WriteErrorAck ELSE UnexpectedErrorAck
              /\ outcome' = o
              /\ Goto("worker", "get")
              /\ temp_file_path' = NoFile
              /\ IF o = "write_error"
                   THEN temp_files' =
                          FinallyUnlink(
                            Unlink(temp_files \cup {NewTempFile}, NewTempFile),
                            NewTempFile)
                   ELSE \E made \in BOOLEAN :
                          temp_files' =
                            IF made
                              THEN FinallyUnlink(temp_files \cup {NewTempFile},
                                                 NewTempFile)
                              ELSE FinallyUnlink(temp_files, NoFile)
  /\ UNCHANGED <<harnessVars, uiVars, logVars, routeVars, dbVars, streamVars, audioVars, transcription_queue, put_log, transcribed_chunks,
                 mainVars, ret, cb, segment_data, audio_data, text, final_text,
                 puts_at_join, boundVars>>

\* a handler of the backend's exception that leaves `text` as the last
\* iteration set it
TranscribeTextStale(o, a) == IF o = "text" THEN BackendText(a) ELSE text

\* the text left by transcription.py:60-71 when transcribe_batch ends as o:
\* results[0] of a non-empty list, else None (<<>>); the handler of the
\* backend's exception, and of text[:30] on a None text, sets None
TranscribeText(o, a) == IF o = "text" THEN BackendText(a) ELSE <<>>

\* transcription.py:58-71  model.transcribe_batch([temp_file_path])
WorkerTranscribe(allowed) ==
  /\ pc["worker"] = "transcribe"
  /\ \E o \in allowed :
       /\ outcome' = o
       /\ IF o = "hang"
            THEN /\ Goto("worker", "hung")
                 /\ UNCHANGED text
            ELSE /\ text' = TranscribeText(o, audio_data.data)
                 /\ Goto("worker", "append")
  /\ UNCHANGED <<extVars, streamVars, audioVars, queueVars, transcribed_chunks, mainVars, ret, cb,
                 segment_data, audio_data, acks, over_ack, final_text,
                 puts_at_join, boundVars>>

\* an append without the test of the text
WorkerAppendAlways ==
  /\ pc["worker"] = "append"
  /\ transcribed_chunks' = Append(transcribed_chunks, text)
  /\ Goto("worker", "done")
  /\ UNCHANGED <<extVars, streamVars, audioVars, queueVars, mainVars, ret,
                 cb, segment_data, workerVars, final_text, puts_at_join,
                 boundVars>>

\* transcription.py:73-75  if text: results_list.append(text)
WorkerAppend ==
  /\ pc["worker"] = "append"
  /\ transcribed_chunks' =
       IF text # <<>> THEN Append(transcribed_chunks, text) ELSE transcribed_chunks
  /\ Goto("worker", "done")
  /\ UNCHANGED <<extVars, streamVars, audioVars, queueVars, mainVars, ret, cb, segment_data,
                 workerVars, final_text, puts_at_join, boundVars>>

\* transcription.py:77, 87-93  work_queue.task_done(), and the finally block
\* that ends the iteration
WorkerDone ==
  /\ pc["worker"] = "done"
  /\ TaskDone
  /\ temp_files' = FinallyUnlink(temp_files, temp_file_path)
  /\ temp_file_path' = NoFile
  /\ Goto("worker", "get")
  /\ UNCHANGED <<harnessVars, uiVars, logVars, routeVars, dbVars, streamVars, audioVars, transcription_queue, put_log, transcribed_chunks,
                 mainVars, ret, cb, segment_data, audio_data, text, outcome,
                 final_text, puts_at_join, boundVars>>

\* ------------------------------------- AudioManager.audio_callback
\* audio.py:148-157  the is_collecting gate and chunk = indata.copy().  A
\* callback that finds is_collecting false returns without any effect.
BufferArrives(frameSizes, rmsLevels, limit) ==
  /\ pc["audio"] = "idle"
  /\ stream_open
  /\ is_collecting
  /\ n_callbacks < limit
  /\ \E f \in frameSizes, r \in rmsLevels :
       cb' = [chunk |-> NewChunk(n_callbacks + 1, f), frames |-> f, rms |-> r]
  /\ n_callbacks' = n_callbacks + 1
  /\ Goto("audio", "route")
  /\ UNCHANGED <<call, uiVars, fileVars, routeVars, dbVars, logVars, streamVars, audioVars, queueVars, transcribed_chunks, mainVars, ret,
                 segment_data, workerVars, final_text, puts_at_join, n_sessions>>

AudioCallbackEnter(frameSizes, rmsLevels, limit) ==
  BufferArrives(frameSizes, rmsLevels, limit) /\ UNCHANGED heard

\* a test that leaves out the threshold itself, and one that every buffer
\* passes
IsSpeechAbove(rms) == rms > RMS_THRESHOLD_MILLI
AlwaysSpeech(rms) == TRUE

\* audio.py:170  the rms of a buffer with a NaN sample is float('nan'); the
\* rms of a buffer with an infinite sample, or whose squares overflow, is
\* float('inf'), which is above every finite rms
NaN == -1
Inf == 1000000

\* x >= y on floats: False when either is NaN
FloatGe(x, y) == x # NaN /\ y # NaN /\ x >= y

\* audio.py:182  is_speech_chunk = rms >= self.RMS_THRESHOLD
IsSpeechChunk(rms) == FloatGe(rms, RMS_THRESHOLD_MILLI)

\* audio.py:160-193  the mode test, the rms and the branch taken
AudioCallbackRoute ==
  /\ pc["audio"] = "route"
  /\ IF streaming_mode
       THEN Goto("audio", "s_append")
       ELSE IF IsSpeechChunk(cb.rms)
         THEN Goto("audio", "speech_append")
         ELSE IF is_potentially_speaking
           THEN Goto("audio", "silence_add")
           ELSE Goto("audio", "idle")
  /\ UNCHANGED <<extVars, streamVars, audioVars, queueVars, transcribed_chunks, mainVars, ret, cb,
                 segment_data, workerVars, final_text, puts_at_join, boundVars>>

\* audio.py:186  self.audio_buffer.append(chunk)
AudioSpeechAppend ==
  /\ pc["audio"] = "speech_append"
  /\ audio_buffer' = Append(audio_buffer, cb.chunk)
  /\ Goto("audio", "speech_silence")
  /\ UNCHANGED <<extVars, streamVars, is_collecting, current_silence_s, is_potentially_speaking,
                 streaming_mode, queueVars, transcribed_chunks, mainVars, ret,
                 cb, segment_data, workerVars, final_text, puts_at_join,
                 boundVars>>

\* audio.py:190  self.current_silence_s = 0.0
AudioSpeechSilence ==
  /\ pc["audio"] = "speech_silence"
  /\ current_silence_s' = 0
  /\ Goto("audio", "speech_flag")
  /\ UNCHANGED <<extVars, streamVars, is_collecting, audio_buffer, is_potentially_speaking,
                 streaming_mode, queueVars, transcribed_chunks, mainVars, ret,
                 cb, segment_data, workerVars, final_text, puts_at_join,
                 boundVars>>

\* audio.py:191  self.is_potentially_speaking = True
AudioSpeechFlag ==
  /\ pc["audio"] = "speech_flag"
  /\ is_potentially_speaking' = TRUE
  /\ Goto("audio", "idle")
  /\ UNCHANGED <<extVars, streamVars, is_collecting, audio_buffer, current_silence_s,
                 streaming_mode, queueVars, transcribed_chunks, mainVars, ret,
                 cb, segment_data, workerVars, final_text, puts_at_join,
                 boundVars>>

\* audio.py:195  self.current_silence_s += current_chunk_duration_s
AudioSilenceAdd ==
  /\ pc["audio"] = "silence_add"
  /\ current_silence_s' = current_silence_s + DurationMs(cb.frames)
  /\ Goto("audio", "silence_check")
  /\ UNCHANGED <<extVars, streamVars, is_collecting, audio_buffer, is_potentially_speaking,
                 streaming_mode, queueVars, transcribed_chunks, mainVars, ret,
                 cb, segment_data, workerVars, final_text, puts_at_join,
                 boundVars>>

\* audio.py:203  if self.current_silence_s >= self.SILENCE_DURATION_S
AudioSilenceCheck ==
  /\ pc["audio"] = "silence_check"
  /\ IF current_silence_s >= SILENCE_DURATION_MS
       THEN Goto("audio", "flush_if")
       ELSE Goto("audio", "silence_append")
  /\ UNCHANGED <<extVars, streamVars, audioVars, queueVars, transcribed_chunks, mainVars, ret, cb,
                 segment_data, workerVars, final_text, puts_at_join, boundVars>>

\* audio.py:207  if self.audio_buffer
AudioFlushIf ==
  /\ pc["audio"] = "flush_if"
  /\ IF audio_buffer # <<>>
       THEN Goto("audio", "flush_concat")
       ELSE Goto("audio", "flush_reset_buffer")
  /\ UNCHANGED <<extVars, streamVars, audioVars, queueVars, transcribed_chunks, mainVars, ret, cb,
                 segment_data, workerVars, final_text, puts_at_join, boundVars>>

\* a silent buffer that is not kept
AudioSilenceSkip ==
  /\ pc["audio"] = "silence_append"
  /\ Goto("audio", "idle")
  /\ UNCHANGED <<extVars, streamVars, audioVars, queueVars, transcribed_chunks, mainVars, ret,
                 cb, segment_data, workerVars, final_text, puts_at_join,
                 boundVars>>

\* audio.py:231  self.audio_buffer.append(chunk)
AudioSilenceAppend ==
  /\ pc["audio"] = "silence_append"
  /\ audio_buffer' = Append(audio_buffer, cb.chunk)
  /\ Goto("audio", "idle")
  /\ UNCHANGED <<extVars, streamVars, is_collecting, current_silence_s, is_potentially_speaking,
                 streaming_mode, queueVars, transcribed_chunks, mainVars, ret,
                 cb, segment_data, workerVars, final_text, puts_at_join,
                 boundVars>>

\* a test that every segment passes
AnyLength(a) == TRUE

\* audio.py:213 and 279  segment_duration_s >= self.MIN_CHUNK_DURATION_S
LongEnough(a) == DurationMs(NpLen(a)) >= MIN_CHUNK_DURATION_MS

\* audio.py:209-213  segment_data = np.concatenate(self.audio_buffer)
AudioFlushConcat ==
  /\ pc["audio"] = "flush_concat"
  /\ segment_data' = [segment_data EXCEPT !["audio"] = NpConcatenate(audio_buffer)]
  /\ IF LongEnough(NpConcatenate(audio_buffer))
       THEN Goto("audio", "flush_put")
       ELSE Goto("audio", "flush_reset_buffer")
  /\ UNCHANGED <<extVars, streamVars, audioVars, queueVars, transcribed_chunks, mainVars, ret, cb,
                 workerVars, final_text, puts_at_join, boundVars>>

\* an error that leaves the callback: nothing of it runs any more
Propagated(next) == "crashed"

\* audio.py:217-218, 434-435  except Exception: logger.error(...); the
\* callback goes on at the statement after the try block
Caught(next) == next

\* audio.py:215-218  the put raises; the handler logs the error and the
\* callback goes on with the resets of lines 225-227
AudioFlushPutRaises ==
  /\ pc["audio"] = "flush_put"
  /\ warnings' = Append(warnings, "Error putting segment onto queue")
  /\ Goto("audio", Caught("flush_reset_buffer"))
  /\ UNCHANGED <<harnessVars, uiVars, fileVars, routeVars, dbVars, streamVars, audioVars,
                 queueVars, transcribed_chunks, mainVars, ret, cb,
                 segment_data, workerVars, final_text, puts_at_join,
                 boundVars>>

\* audio.py:216  self.transcription_queue.put(segment_data)
AudioFlushPut ==
  /\ pc["audio"] = "flush_put"
  /\ QueuePut(Segment(segment_data["audio"]))
  /\ Goto("audio", "flush_reset_buffer")
  /\ UNCHANGED <<extVars, streamVars, audioVars, transcribed_chunks, mainVars, ret, cb,
                 segment_data, workerVars, final_text, puts_at_join, boundVars>>

\* audio.py:225  self.audio_buffer = []
AudioFlushResetBuffer ==
  /\ pc["audio"] = "flush_reset_buffer"
  /\ audio_buffer' = <<>>
  /\ Goto("audio", "flush_reset_silence")
  /\ UNCHANGED <<extVars, streamVars, is_collecting, current_silence_s, is_potentially_speaking,
                 streaming_mode, queueVars, transcribed_chunks, mainVars, ret,
                 cb, segment_data, workerVars, final_text, puts_at_join,
                 boundVars>>

\* audio.py:226  self.current_silence_s = 0.0
AudioFlushResetSilence ==
  /\ pc["audio"] = "flush_reset_silence"
  /\ current_silence_s' = 0
  /\ Goto("audio", "flush_reset_flag")
  /\ UNCHANGED <<extVars, streamVars, is_collecting, audio_buffer, is_potentially_speaking,
                 streaming_mode, queueVars, transcribed_chunks, mainVars, ret,
                 cb, segment_data, workerVars, final_text, puts_at_join,
                 boundVars>>

\* audio.py:227  self.is_potentially_speaking = False
AudioFlushResetFlag ==
  /\ pc["audio"] = "flush_reset_flag"
  /\ is_potentially_speaking' = FALSE
  /\ Goto("audio", "idle")
  /\ UNCHANGED <<extVars, streamVars, is_collecting, audio_buffer, current_silence_s,
                 streaming_mode, queueVars, transcribed_chunks, mainVars, ret,
                 cb, segment_data, workerVars, final_text, puts_at_join,
                 boundVars>>

\* ------------------------------------- AudioManager.stop_recording
\* audio.py:262-264  if not self.is_collecting: return
StopRecordingCheck(t) ==
  /\ pc[t] = "stop_check"
  /\ IF is_collecting THEN Goto(t, "stop_set") ELSE Goto(t, ret[t])
  /\ UNCHANGED <<extVars, streamVars, audioVars, queueVars, transcribed_chunks, mainVars, ret, cb,
                 segment_data, workerVars, final_text, puts_at_join, boundVars>>

\* a stop that leaves is_collecting as it is
StopRecordingKeepsCollecting(t) ==
  /\ pc[t] = "stop_set"
  /\ Goto(t, "stop_if")
  /\ UNCHANGED <<extVars, streamVars, audioVars, queueVars, transcribed_chunks,
                 mainVars, ret, cb, segment_data, workerVars, final_text,
                 puts_at_join, boundVars>>

\* audio.py:267  self.set_is_collecting(False)
StopRecordingSet(t) ==
  /\ pc[t] = "stop_set"
  /\ is_collecting' = FALSE
  /\ Goto(t, "stop_if")
  /\ UNCHANGED <<extVars, streamVars, audio_buffer, current_silence_s, is_potentially_speaking,
                 streaming_mode, queueVars, transcribed_chunks, mainVars, ret,
                 cb, segment_data, workerVars, final_text, puts_at_join,
                 boundVars>>

\* a final flush that is skipped once silence has accumulated
StopRecordingIfNoSilence(t) ==
  /\ pc[t] = "stop_if"
  /\ IF audio_buffer # <<>> /\ current_silence_s = 0
       THEN Goto(t, "stop_concat")
       ELSE Goto(t, "reset_buffer")
  /\ UNCHANGED <<extVars, streamVars, audioVars, queueVars,
                 transcribed_chunks, mainVars, ret, cb, segment_data,
                 workerVars, final_text, puts_at_join, boundVars>>

\* audio.py:271  if self.audio_buffer
StopRecordingIf(t) ==
  /\ pc[t] = "stop_if"
  /\ IF audio_buffer # <<>>
       THEN Goto(t, "stop_concat")
       ELSE Goto(t, "reset_buffer")
  /\ UNCHANGED <<extVars, streamVars, audioVars, queueVars, transcribed_chunks, mainVars, ret, cb,
                 segment_data, workerVars, final_text, puts_at_join, boundVars>>

\* audio.py:274-279  segment_data = np.concatenate(self.audio_buffer)
StopRecordingConcat(t) ==
  /\ pc[t] = "stop_concat"
  /\ segment_data' = [segment_data EXCEPT ![t] = NpConcatenate(audio_buffer)]
  /\ IF LongEnough(NpConcatenate(audio_buffer))
       THEN Goto(t, "stop_put")
       ELSE Goto(t, "reset_buffer")
  /\ UNCHANGED <<extVars, streamVars, audioVars, queueVars, transcribed_chunks, mainVars, ret, cb,
                 workerVars, final_text, puts_at_join, boundVars>>

\* audio.py:281  self.transcription_queue.put(segment_data)
StopRecordingPut(t) ==
  /\ pc[t] = "stop_put"
  /\ QueuePut(Segment(segment_data[t]))
  /\ Goto(t, "reset_buffer")
  /\ UNCHANGED <<extVars, streamVars, audioVars, transcribed_chunks, mainVars, ret, cb,
                 segment_data, workerVars, final_text, puts_at_join, boundVars>>

\* ----------------------------- AudioManager.reset_collected_audio
\* audio.py:123  self.audio_buffer = []
ResetBuffer(t) ==
  /\ pc[t] = "reset_buffer"
  /\ audio_buffer' = <<>>
  /\ Goto(t, "reset_silence")
  /\ UNCHANGED <<extVars, streamVars, is_collecting, current_silence_s, is_potentially_speaking,
                 streaming_mode, queueVars, transcribed_chunks, mainVars, ret,
                 cb, segment_data, workerVars, final_text, puts_at_join,
                 boundVars>>

\* audio.py:125  self.current_silence_s = 0.0
ResetSilence(t) ==
  /\ pc[t] = "reset_silence"
  /\ current_silence_s' = 0
  /\ Goto(t, "reset_flag")
  /\ UNCHANGED <<extVars, streamVars, is_collecting, audio_buffer, is_potentially_speaking,
                 streaming_mode, queueVars, transcribed_chunks, mainVars, ret,
                 cb, segment_data, workerVars, final_text, puts_at_join,
                 boundVars>>

\* audio.py:126  self.is_potentially_speaking = False, and the return to the
\* caller of reset_collected_audio
ResetFlag(t) ==
  /\ pc[t] = "reset_flag"
  /\ is_potentially_speaking' = FALSE
  /\ Goto(t, ret[t])
  /\ UNCHANGED <<extVars, streamVars, is_collecting, audio_buffer, current_silence_s,
                 streaming_mode, queueVars, transcribed_chunks, mainVars, ret,
                 cb, segment_data, workerVars, final_text, puts_at_join,
                 boundVars>>

reset_collected_audio(t) == ResetBuffer(t) \/ ResetSilence(t) \/ ResetFlag(t)

stop_recording(t) ==
  \/ StopRecordingCheck(t)
  \/ StopRecordingSet(t)
  \/ StopRecordingIf(t)
  \/ StopRecordingConcat(t)
  \/ StopRecordingPut(t)

\* ------------------------------------------------ hotkeys.on_activate
\* hotkeys.py:61  if not state.audio_manager.is_collecting: start, else stop
OnActivateWithin(limit) ==
  /\ pc["key"] = "idle"
  /\ listening
  /\ IF ~is_collecting
       THEN /\ n_sessions < limit
            /\ n_sessions' = n_sessions + 1
            /\ Goto("key", "start_clear")
            /\ UNCHANGED ret
       ELSE /\ Goto("key", "stop_check")
            /\ ret' = [ret EXCEPT !["key"] = "join"]
            /\ UNCHANGED n_sessions
  /\ UNCHANGED <<extVars, streamVars, audioVars, queueVars, transcribed_chunks, mainVars, cb,
                 segment_data, workerVars, final_text, puts_at_join,
                 n_callbacks>>

OnActivate == OnActivateWithin(MaxSessions)

\* hotkeys.py:30, 37  state.transcribed_chunks.clear(); start_recording()
ClearResults ==
  /\ pc["key"] = "start_clear"
  /\ transcribed_chunks' = <<>>
  /\ Goto("key", "reset_buffer")
  /\ ret' = [ret EXCEPT !["key"] = "start_set"]
  /\ UNCHANGED <<call, uiVars, fileVars, routeVars, dbVars, logVars, streamVars, audioVars, queueVars, mainVars, cb, segment_data,
                 workerVars, final_text, puts_at_join, boundVars>>

StartClear == ClearResults /\ UNCHANGED heard

\* audio.py:257  self.set_is_collecting(True)
StartSet ==
  /\ pc["key"] = "start_set"
  /\ is_collecting' = TRUE
  /\ Goto("key", "idle")
  /\ UNCHANGED <<extVars, streamVars, audio_buffer, current_silence_s, is_potentially_speaking,
                 streaming_mode, queueVars, transcribed_chunks, mainVars, ret,
                 cb, segment_data, workerVars, final_text, puts_at_join,
                 boundVars>>

\* hotkeys.py:47  state.transcription_queue.join()
StopJoin ==
  /\ pc["key"] = "join"
  /\ QueueJoinReturns
  /\ puts_at_join' = Len(put_log)
  /\ Goto("key", "aggregate")
  /\ UNCHANGED <<extVars, streamVars, audioVars, queueVars, transcribed_chunks, mainVars, ret, cb,
                 segment_data, workerVars, final_text, boundVars>>

RECURSIVE SpaceJoin(_)
\* " ".join(chunks).strip(), a text being its sequence of words
SpaceJoin(chunks) ==
  IF chunks = <<>> THEN <<>> ELSE Head(chunks) \o SpaceJoin(Tail(chunks))

\* hotkeys.py:50  final_text = " ".join(state.transcribed_chunks).strip()
StopAggregate ==
  /\ pc["key"] = "aggregate"
  /\ final_text' = SpaceJoin(transcribed_chunks)
  /\ Goto("key", "idle")
  /\ UNCHANGED <<extVars, streamVars, audioVars, queueVars, transcribed_chunks, mainVars, ret, cb,
                 segment_data, workerVars, puts_at_join, boundVars>>

on_activate == OnActivate \/ StartClear \/ StartSet \/ StopJoin \/ StopAggregate

\* --------------------------------------------------- ctrlspeak.exit_app
\* the exit hotkey <alt>+<esc> calls exit_app on the hotkey listener thread
HotkeyExit ==
  /\ pc["hot"] = "idle"
  /\ Goto("hot", "exit_check")
  /\ UNCHANGED <<extVars, streamVars, audioVars, queueVars, transcribed_chunks, mainVars, ret, cb,
                 segment_data, workerVars, final_text, puts_at_join, boundVars>>

\* ctrlspeak.py:589-591  if audio_manager.is_collecting: stop_recording()
ExitAppCheck(t) ==
  /\ pc[t] = "exit_check"
  /\ IF is_collecting
       THEN /\ Goto(t, "stop_check")
            /\ ret' = [ret EXCEPT ![t] = "exit_put"]
       ELSE /\ Goto(t, "exit_put")
            /\ UNCHANGED ret
  /\ UNCHANGED <<extVars, streamVars, audioVars, queueVars, transcribed_chunks, mainVars, cb,
                 segment_data, workerVars, final_text, puts_at_join, boundVars>>

\* ctrlspeak.py:595  transcription_queue.put(None)
ExitAppPut(t) ==
  /\ pc[t] = "exit_put"
  /\ QueuePut(None)
  /\ Goto(t, "exit_listeners")
  /\ UNCHANGED <<extVars, streamVars, audioVars, transcribed_chunks, mainVars, ret, cb,
                 segment_data, workerVars, final_text, puts_at_join, boundVars>>

\* ctrlspeak.py:598-604  keyboard_manager.stop_listening(): no key event is
\* delivered any more; a handler already running goes on
ExitAppStopListening(t) ==
  /\ pc[t] = "exit_listeners"
  /\ listening' = FALSE
  /\ Goto(t, "exit_flag")
  /\ UNCHANGED <<extVars, streamVars, audioVars, queueVars, transcribed_chunks, main_loop_active,
                 stream_open, ret, cb, segment_data, workerVars, final_text,
                 puts_at_join, boundVars>>

\* ctrlspeak.py:609  main_loop_active = False; exit_app returns
ExitAppFlag(t) ==
  /\ pc[t] = "exit_flag"
  /\ main_loop_active' = FALSE
  /\ Goto(t, "done")
  /\ UNCHANGED <<extVars, streamVars, audioVars, queueVars, transcribed_chunks, stream_open,
                 listening, ret, cb, segment_data, workerVars, final_text,
                 puts_at_join, boundVars>>

exit_app(t) ==
  ExitAppCheck(t) \/ ExitAppPut(t) \/ ExitAppStopListening(t) \/ ExitAppFlag(t)

\* ------------------------------------------------------ ctrlspeak.main
\* leaving `with audio_manager.start_input_stream():` closes the stream, which
\* waits for a callback in progress
StreamClose ==
  /\ pc["audio"] = "idle"
  /\ stream_open' = FALSE

\* ctrlspeak.py:715-719  while main_loop_active: sleep(0.5)
MainLoopExit ==
  /\ pc["main"] = "loop"
  /\ ~main_loop_active
  /\ StreamClose
  /\ Goto("main", "finally_check")
  /\ UNCHANGED <<extVars, streamVars, audioVars, queueVars, transcribed_chunks, main_loop_active,
                 listening, ret, cb, segment_data, workerVars, final_text,
                 puts_at_join, boundVars>>

\* ctrlspeak.py:731-745  keyboard_manager.stop_listening(), then
\* if audio_manager.is_collecting: stop_recording()
MainFinallyCheck ==
  /\ pc["main"] = "finally_check"
  /\ listening' = FALSE
  /\ IF is_collecting
       THEN /\ Goto("main", "stop_check")
            /\ ret' = [ret EXCEPT !["main"] = "finally_put"]
       ELSE /\ Goto("main", "finally_put")
            /\ UNCHANGED ret
  /\ UNCHANGED <<extVars, streamVars, audioVars, queueVars, transcribed_chunks, main_loop_active,
                 stream_open, cb, segment_data, workerVars, final_text,
                 puts_at_join, boundVars>>

\* ctrlspeak.py:754  transcription_queue.put(None)
MainFinallyPut ==
  /\ pc["main"] = "finally_put"
  /\ QueuePut(None)
  /\ Goto("main", "finally_join")
  /\ UNCHANGED <<extVars, streamVars, audioVars, transcribed_chunks, mainVars, ret, cb,
                 segment_data, workerVars, final_text, puts_at_join, boundVars>>

\* the worker thread is alive until its loop ends
WorkerAlive == pc["worker"] # "exited"

\* a join without timeout returns only when the thread has ended
JoinNoTimeout(alive) == ~alive

\* Thread.join(timeout=3.0) returns when the thread has ended or, whether or
\* not it has, when the timeout has passed
JoinTimeoutReturns(alive) == TRUE

\* ctrlspeak.py:757-779  the bounded join of the worker, then sys.exit(0)
MainFinallyJoin ==
  /\ pc["main"] = "finally_join"
  /\ WorkerAlive => JoinTimeoutReturns(WorkerAlive)
  /\ Goto("main", "exited")
  /\ UNCHANGED <<extVars, streamVars, audioVars, queueVars, transcribed_chunks, mainVars, ret, cb,
                 segment_data, workerVars, final_text, puts_at_join, boundVars>>

\* ------------------------------------------------ array slicing
RECURSIVE NpTake(_, _)
\* a[:n]
NpTake(a, n) ==
  IF n <= 0 \/ a = <<>> THEN <<>>
  ELSE IF Head(a).n <= n
    THEN << Head(a) >> \o NpTake(Tail(a), n - Head(a).n)
    ELSE << [Head(a) EXCEPT !.n = n] >>

RECURSIVE NpDrop(_, _)
\* a[n:]
NpDrop(a, n) ==
  IF a = <<>> THEN <<>>
  ELSE IF n <= 0 THEN a
  ELSE IF Head(a).n <= n
    THEN NpDrop(Tail(a), n - Head(a).n)
    ELSE << [id |-> Head(a).id, off |-> Head(a).off + n, n |-> Head(a).n - n] >>
           \o Tail(a)

\* sum(len(c) for c in list_of_arrays)
SumLen(l) == NpLen(NpConcatenate(l))

\* ------------------------------------- streaming.py: queue and items
\* queue.Queue(maxsize=50)
STREAM_QUEUE_MAXSIZE == 50

\* the global _streaming_queue before start_streaming and after stop_streaming
NoQueue == [exists |-> FALSE, items |-> <<>>, unfinished |-> 0]
NewQueue == [exists |-> TRUE, items |-> <<>>, unfinished |-> 0]

\* a queued tuple (audio_samples, is_final), and the None sentinel
StreamItem(a, f) == [none |-> FALSE, data |-> a, is_final |-> f]
StreamSentinel == [none |-> TRUE, data |-> <<>>, is_final |-> FALSE]

\* a put that takes the item whatever the queue holds
PutUnbounded(q, item) ==
  [q EXCEPT !.items = Append(@, item), !.unfinished = @ + 1]

\* Queue.put_nowait(item) with queue.Full handled by the caller: a full queue
\* is left as it is, the item is dropped
PutNowait(q, item) ==
  IF Len(q.items) >= STREAM_QUEUE_MAXSIZE
    THEN q
    ELSE [q EXCEPT !.items = Append(@, item), !.unfinished = @ + 1]

\* whether put_nowait(item) on q raises queue.Full
IsFull(q) == Len(q.items) >= STREAM_QUEUE_MAXSIZE

\* the locals of a thread outside the function that owns them
NoLocal == [total |-> 0, audio_data |-> <<>>, chunk_samples |-> <<>>]
NoRemaining == [samples |-> 0, audio |-> <<>>]
NoArg == StreamItem(<<>>, FALSE)

\* --------------------------- AudioManager._streaming_audio_callback
\* audio.py:395  self._streaming_buffer.append(chunk)
StreamAppend ==
  /\ pc["audio"] = "s_append"
  /\ streaming_buffer' = Append(streaming_buffer, cb.chunk)
  /\ fed' = Append(fed, cb.frames)
  /\ Goto("audio", "s_total")
  /\ UNCHANGED <<extVars, is_collecting, audio_buffer, current_silence_s,
                 is_potentially_speaking, streaming_mode,
                 transcription_queue, unfinished_tasks, transcribed_chunks,
                 main_loop_active, stream_open, listening, ret, cb,
                 segment_data, audio_data, text, final_text, put_log, acks,
                 outcome, over_ack, puts_at_join, n_callbacks, n_sessions,
                 streaming_callback, streaming_chunk_size_samples,
                 streaming_queue, streaming_stop_event, stream_chunks,
                 finalized, s_local, remaining, osc_arg, queue_item,
                 manager_ret, on_chunk_log, sput_log, chunks_at_stop,
                 sputs_at_stop>>

\* audio.py:398  total_samples = sum(len(c) for c in self._streaming_buffer)
StreamTotal ==
  /\ pc["audio"] = "s_total"
  /\ s_local' = [s_local EXCEPT !.total = SumLen(streaming_buffer)]
  /\ Goto("audio", "s_check")
  /\ UNCHANGED <<extVars, is_collecting, audio_buffer, current_silence_s,
                 is_potentially_speaking, streaming_mode,
                 transcription_queue, unfinished_tasks, transcribed_chunks,
                 main_loop_active, stream_open, listening, ret, cb,
                 segment_data, audio_data, text, final_text, put_log, acks,
                 outcome, over_ack, puts_at_join, n_callbacks, n_sessions,
                 streaming_buffer, streaming_callback,
                 streaming_chunk_size_samples, streaming_queue,
                 streaming_stop_event, stream_chunks, finalized, remaining,
                 osc_arg, queue_item, manager_ret, fed, on_chunk_log,
                 sput_log, chunks_at_stop, sputs_at_stop>>

\* audio.py:410  if total_samples >= self._streaming_chunk_size_samples
StreamCheck ==
  /\ pc["audio"] = "s_check"
  /\ IF s_local.total >= streaming_chunk_size_samples
       THEN /\ Goto("audio", "s_concat")
            /\ UNCHANGED s_local
       ELSE /\ Goto("audio", "idle")
            /\ s_local' = NoLocal
  /\ UNCHANGED <<extVars, is_collecting, audio_buffer, current_silence_s,
                 is_potentially_speaking, streaming_mode,
                 transcription_queue, unfinished_tasks, transcribed_chunks,
                 main_loop_active, stream_open, listening, ret, cb,
                 segment_data, audio_data, text, final_text, put_log, acks,
                 outcome, over_ack, puts_at_join, n_callbacks, n_sessions,
                 streaming_buffer, streaming_callback,
                 streaming_chunk_size_samples, streaming_queue,
                 streaming_stop_event, stream_chunks, finalized, remaining,
                 osc_arg, queue_item, manager_ret, fed, on_chunk_log,
                 sput_log, chunks_at_stop, sputs_at_stop>>

\* audio.py:412  audio_data = np.concatenate(self._streaming_buffer); on an
\* empty list np.concatenate raises ValueError, which ends the callback
StreamConcat ==
  /\ pc["audio"] = "s_concat"
  /\ IF streaming_buffer = <<>>
       THEN /\ Goto("audio", "idle")
            /\ s_local' = NoLocal
       ELSE /\ Goto("audio", "s_slice")
            /\ s_local' =
                 [s_local EXCEPT !.audio_data = NpConcatenate(streaming_buffer)]
  /\ UNCHANGED <<extVars, is_collecting, audio_buffer, current_silence_s,
                 is_potentially_speaking, streaming_mode,
                 transcription_queue, unfinished_tasks, transcribed_chunks,
                 main_loop_active, stream_open, listening, ret, cb,
                 segment_data, audio_data, text, final_text, put_log, acks,
                 outcome, over_ack, puts_at_join, n_callbacks, n_sessions,
                 streaming_buffer, streaming_callback,
                 streaming_chunk_size_samples, streaming_queue,
                 streaming_stop_event, stream_chunks, finalized, remaining,
                 osc_arg, queue_item, manager_ret, fed, on_chunk_log,
                 sput_log, chunks_at_stop, sputs_at_stop>>

\* a chunk that is the whole accumulated buffer
SliceAll(audio, size) == audio

\* audio.py:415  chunk_samples = audio_data[:self._streaming_chunk_size_samples]
SliceChunk(audio, size) == NpTake(audio, size)

StreamSlice ==
  /\ pc["audio"] = "s_slice"
  /\ s_local' = [s_local EXCEPT !.chunk_samples =
                   SliceChunk(s_local.audio_data, streaming_chunk_size_samples)]
  /\ Goto("audio", "s_remainder")
  /\ UNCHANGED <<extVars, is_collecting, audio_buffer, current_silence_s,
                 is_potentially_speaking, streaming_mode,
                 transcription_queue, unfinished_tasks, transcribed_chunks,
                 main_loop_active, stream_open, listening, ret, cb,
                 segment_data, audio_data, text, final_text, put_log, acks,
                 outcome, over_ack, puts_at_join, n_callbacks, n_sessions,
                 streaming_buffer, streaming_callback,
                 streaming_chunk_size_samples, streaming_queue,
                 streaming_stop_event, stream_chunks, finalized, remaining,
                 osc_arg, queue_item, manager_ret, fed, on_chunk_log,
                 sput_log, chunks_at_stop, sputs_at_stop>>

\* a remainder that is thrown away
RemainderNone(audio, size) == <<>>

\* audio.py:418  remainder = audio_data[self._streaming_chunk_size_samples:]
Remainder(audio, size) == NpDrop(audio, size)

\* audio.py:418-422  remainder = audio_data[size:]; the buffer becomes
\* [remainder], or [] when the remainder is empty
StreamRemainder ==
  /\ pc["audio"] = "s_remainder"
  /\ LET remainder == Remainder(s_local.audio_data, streaming_chunk_size_samples)
     IN  streaming_buffer' =
           IF NpLen(remainder) > 0 THEN << remainder >> ELSE <<>>
  /\ Goto("audio", "s_if_callback")
  /\ UNCHANGED <<extVars, is_collecting, audio_buffer, current_silence_s,
                 is_potentially_speaking, streaming_mode,
                 transcription_queue, unfinished_tasks, transcribed_chunks,
                 main_loop_active, stream_open, listening, ret, cb,
                 segment_data, audio_data, text, final_text, put_log, acks,
                 outcome, over_ack, puts_at_join, n_callbacks, n_sessions,
                 streaming_callback, streaming_chunk_size_samples,
                 streaming_queue, streaming_stop_event, stream_chunks,
                 finalized, s_local, remaining, osc_arg, queue_item,
                 manager_ret, fed, on_chunk_log, sput_log, chunks_at_stop,
                 sputs_at_stop>>

\* audio.py:429  if self._streaming_callback
StreamIfCallback ==
  /\ pc["audio"] = "s_if_callback"
  /\ IF streaming_callback
       THEN /\ Goto("audio", "s_call")
            /\ UNCHANGED s_local
       ELSE /\ Goto("audio", "idle")
            /\ s_local' = NoLocal
  /\ UNCHANGED <<extVars, is_collecting, audio_buffer, current_silence_s,
                 is_potentially_speaking, streaming_mode,
                 transcription_queue, unfinished_tasks, transcribed_chunks,
                 main_loop_active, stream_open, listening, ret, cb,
                 segment_data, audio_data, text, final_text, put_log, acks,
                 outcome, over_ack, puts_at_join, n_callbacks, n_sessions,
                 streaming_buffer, streaming_callback,
                 streaming_chunk_size_samples, streaming_queue,
                 streaming_stop_event, stream_chunks, finalized, remaining,
                 osc_arg, queue_item, manager_ret, fed, on_chunk_log,
                 sput_log, chunks_at_stop, sputs_at_stop>>

\* the call on_chunk(samples, is_final) by thread t: streaming.on_streaming_chunk
OnChunk(t, samples, is_final) ==
  /\ on_chunk_log' = Append(on_chunk_log, StreamItem(samples, is_final))
  /\ osc_arg' = [osc_arg EXCEPT ![t] = StreamItem(samples, is_final)]
  /\ Goto(t, "osc_check")

\* audio.py:433  self._streaming_callback(chunk_samples, is_final=False); the
\* attribute is read again, and calling None raises TypeError, caught at 434
StreamCall ==
  /\ pc["audio"] = "s_call"
  /\ IF streaming_callback
       THEN OnChunk("audio", s_local.chunk_samples, FALSE)
       ELSE /\ Goto("audio", "idle")
            /\ UNCHANGED <<on_chunk_log, osc_arg>>
  /\ s_local' = NoLocal
  /\ UNCHANGED <<extVars, is_collecting, audio_buffer, current_silence_s,
                 is_potentially_speaking, streaming_mode,
                 transcription_queue, unfinished_tasks, transcribed_chunks,
                 main_loop_active, stream_open, listening, ret, cb,
                 segment_data, audio_data, text, final_text, put_log, acks,
                 outcome, over_ack, puts_at_join, n_callbacks, n_sessions,
                 streaming_buffer, streaming_callback,
                 streaming_chunk_size_samples, streaming_queue,
                 streaming_stop_event, stream_chunks, finalized, remaining,
                 queue_item, manager_ret, fed, sput_log, chunks_at_stop,
                 sputs_at_stop>>

\* audio.py:432-435  the callable given as on_chunk raises; the handler logs
\* "Error in streaming callback" and the audio callback ends
StreamCallRaises ==
  /\ pc["audio"] = "s_call"
  /\ streaming_callback
  /\ warnings' = Append(warnings, "Error in streaming callback")
  /\ Goto("audio", Caught("idle"))
  /\ s_local' = NoLocal
  /\ UNCHANGED <<harnessVars, uiVars, fileVars, routeVars, dbVars, is_collecting, audio_buffer,
                 current_silence_s, is_potentially_speaking, streaming_mode,
                 transcription_queue, unfinished_tasks, transcribed_chunks,
                 main_loop_active, stream_open, listening, ret, cb,
                 segment_data, audio_data, text, final_text, put_log, acks,
                 outcome, over_ack, puts_at_join, n_callbacks, n_sessions,
                 streaming_buffer, streaming_callback,
                 streaming_chunk_size_samples, streaming_queue,
                 streaming_stop_event, stream_chunks, finalized, remaining,
                 queue_item, manager_ret, fed, sput_log, chunks_at_stop,
                 sputs_at_stop, on_chunk_log, osc_arg>>

streaming_audio_callback ==
  \/ StreamAppend \/ StreamTotal \/ StreamCheck \/ StreamConcat
  \/ StreamSlice \/ StreamRemainder \/ StreamIfCallback \/ StreamCall

\* ------------------------------------- streaming.on_streaming_chunk
\* where on_streaming_chunk returns to: the audio callback ends, or
\* stop_streaming goes on after its try block
AfterOnChunk(t) == IF t = "audio" THEN "idle" ELSE "ss_reset_mode"

\* streaming.py:108  if _streaming_queue is not None
OnStreamingChunkCheck(t) ==
  /\ pc[t] = "osc_check"
  /\ IF streaming_queue.exists
       THEN /\ Goto(t, "osc_put")
            /\ UNCHANGED <<osc_arg, warnings>>
       ELSE /\ Goto(t, AfterOnChunk(t))
            /\ osc_arg' = [osc_arg EXCEPT ![t] = NoArg]
            /\ warnings' = Append(warnings, "queue not initialized")
  /\ UNCHANGED <<harnessVars, uiVars, fileVars, routeVars, dbVars, is_collecting, audio_buffer, current_silence_s,
                 is_potentially_speaking, streaming_mode,
                 transcription_queue, unfinished_tasks, transcribed_chunks,
                 main_loop_active, stream_open, listening, ret, cb,
                 segment_data, audio_data, text, final_text, put_log, acks,
                 outcome, over_ack, puts_at_join, n_callbacks, n_sessions,
                 streaming_buffer, streaming_callback,
                 streaming_chunk_size_samples, streaming_queue,
                 streaming_stop_event, stream_chunks, finalized, s_local,
                 remaining, queue_item, manager_ret, fed, on_chunk_log,
                 sput_log, chunks_at_stop, sputs_at_stop>>

\* streaming.py:110-116  _streaming_queue.put_nowait((audio_samples, is_final));
\* queue.Full is caught and the chunk dropped with the warning
\* "Streaming queue full, dropping chunk".  The global is read again: on
\* None the AttributeError goes to the caller's handler (audio.py:434, 366)
OnStreamingChunkPut(t) ==
  /\ pc[t] = "osc_put"
  /\ IF streaming_queue.exists
       THEN /\ streaming_queue' = PutNowait(streaming_queue, osc_arg[t])
            /\ sput_log' = IF IsFull(streaming_queue)
                             THEN sput_log ELSE Append(sput_log, osc_arg[t])
            /\ warnings' = IF IsFull(streaming_queue)
                             THEN Append(warnings, "queue full, dropping chunk")
                             ELSE warnings
       ELSE UNCHANGED <<streaming_queue, sput_log, warnings>>
  /\ osc_arg' = [osc_arg EXCEPT ![t] = NoArg]
  /\ Goto(t, AfterOnChunk(t))
  /\ UNCHANGED <<harnessVars, uiVars, fileVars, routeVars, dbVars, is_collecting, audio_buffer, current_silence_s,
                 is_potentially_speaking, streaming_mode,
                 transcription_queue, unfinished_tasks, transcribed_chunks,
                 main_loop_active, stream_open, listening, ret, cb,
                 segment_data, audio_data, text, final_text, put_log, acks,
                 outcome, over_ack, puts_at_join, n_callbacks, n_sessions,
                 streaming_buffer, streaming_callback,
                 streaming_chunk_size_samples, streaming_stop_event,
                 stream_chunks, finalized, s_local, remaining, queue_item,
                 manager_ret, fed, on_chunk_log, chunks_at_stop,
                 sputs_at_stop>>

on_streaming_chunk(t) == OnStreamingChunkCheck(t) \/ OnStreamingChunkPut(t)

\* ------------------------------------------ streaming.start_streaming
\* the chunk sizes the backend can be configured with (nemotron.py:24, 166):
\* 560 ms and the default 1120 ms
ChunkSizesMs == {560, 1120}

\* int(SAMPLE_RATE * chunk_size_ms / 1000)
ChunkSizeSamples(ms) == (SAMPLE_RATE * ms) \div 1000

\* hotkeys.py:61-103  on_activate with a backend that supports streaming:
\* streaming.start_streaming() when not collecting, else
\* streaming.stop_streaming()
OnActivateStreaming ==
  /\ pc["key"] = "idle"
  /\ listening
  /\ IF ~is_collecting
       THEN /\ n_sessions < MaxSessions
            /\ n_sessions' = n_sessions + 1
            /\ Goto("key", "st_init")
            /\ fed' = <<>>
            /\ on_chunk_log' = <<>>
            /\ sput_log' = <<>>
            /\ chunks_at_stop' = -1
            /\ sputs_at_stop' = -1
       ELSE /\ Goto("key", "ss_check")
            /\ UNCHANGED <<n_sessions, fed, on_chunk_log, sput_log,
                           chunks_at_stop, sputs_at_stop>>
  /\ manager_ret' = "st_join"
  /\ UNCHANGED <<extVars, is_collecting, audio_buffer, current_silence_s,
                 is_potentially_speaking, streaming_mode,
                 transcription_queue, unfinished_tasks, transcribed_chunks,
                 main_loop_active, stream_open, listening, ret, cb,
                 segment_data, audio_data, text, final_text, put_log, acks,
                 outcome, over_ack, puts_at_join, n_callbacks,
                 streaming_buffer, streaming_callback,
                 streaming_chunk_size_samples, streaming_queue,
                 streaming_stop_event, stream_chunks, finalized, s_local,
                 remaining, osc_arg, queue_item>>

\* streaming.py:132  state.stt_model.init_streaming()
StartInit ==
  /\ pc["key"] = "st_init"
  /\ stream_chunks' = <<>>
  /\ finalized' = FALSE
  /\ Goto("key", "st_clear")
  /\ UNCHANGED <<extVars, is_collecting, audio_buffer, current_silence_s,
                 is_potentially_speaking, streaming_mode,
                 transcription_queue, unfinished_tasks, transcribed_chunks,
                 main_loop_active, stream_open, listening, ret, cb,
                 segment_data, audio_data, text, final_text, put_log, acks,
                 outcome, over_ack, puts_at_join, n_callbacks, n_sessions,
                 streaming_buffer, streaming_callback,
                 streaming_chunk_size_samples, streaming_queue,
                 streaming_stop_event, s_local, remaining, osc_arg,
                 queue_item, manager_ret, fed, on_chunk_log, sput_log,
                 chunks_at_stop, sputs_at_stop>>

\* streaming.py:141-142  transcribed_chunks.clear(); append("")
StartPlaceholder ==
  /\ pc["key"] = "st_clear"
  /\ transcribed_chunks' = << <<>> >>
  /\ Goto("key", "st_thread")
  /\ UNCHANGED <<extVars, is_collecting, audio_buffer, current_silence_s,
                 is_potentially_speaking, streaming_mode,
                 transcription_queue, unfinished_tasks, main_loop_active,
                 stream_open, listening, ret, cb, segment_data, audio_data,
                 text, final_text, put_log, acks, outcome, over_ack,
                 puts_at_join, n_callbacks, n_sessions, streaming_buffer,
                 streaming_callback, streaming_chunk_size_samples,
                 streaming_queue, streaming_stop_event, stream_chunks,
                 finalized, s_local, remaining, osc_arg, queue_item,
                 manager_ret, fed, on_chunk_log, sput_log, chunks_at_stop,
                 sputs_at_stop>>

\* streaming.py:149-156  the queue, the stop event and the worker thread.  A
\* worker of an earlier session that outlived its bounded join is not
\* followed any further.
StartThread ==
  /\ pc["key"] = "st_thread"
  /\ streaming_queue' = NewQueue
  /\ streaming_stop_event' = "clear"
  /\ queue_item' = StreamSentinel
  /\ pc' = [pc EXCEPT !["key"] = "as_check", !["sworker"] = "sw_loop"]
  /\ UNCHANGED <<extVars, is_collecting, audio_buffer, current_silence_s,
                 is_potentially_speaking, streaming_mode,
                 transcription_queue, unfinished_tasks, transcribed_chunks,
                 main_loop_active, stream_open, listening, ret, cb,
                 segment_data, audio_data, text, final_text, put_log, acks,
                 outcome, over_ack, puts_at_join, n_callbacks, n_sessions,
                 streaming_buffer, streaming_callback,
                 streaming_chunk_size_samples, stream_chunks, finalized,
                 s_local, remaining, osc_arg, manager_ret, fed,
                 on_chunk_log, sput_log, chunks_at_stop, sputs_at_stop>>

\* audio.py:310-312  if self.is_collecting: return
ManagerStartCheck ==
  /\ pc["key"] = "as_check"
  /\ IF is_collecting THEN Goto("key", "idle") ELSE Goto("key", "as_mode")
  /\ UNCHANGED <<extVars, is_collecting, audio_buffer, current_silence_s,
                 is_potentially_speaking, streaming_mode,
                 transcription_queue, unfinished_tasks, transcribed_chunks,
                 main_loop_active, stream_open, listening, ret, cb,
                 segment_data, audio_data, text, final_text, put_log, acks,
                 outcome, over_ack, puts_at_join, n_callbacks, n_sessions,
                 streaming_buffer, streaming_callback,
                 streaming_chunk_size_samples, streaming_queue,
                 streaming_stop_event, stream_chunks, finalized, s_local,
                 remaining, osc_arg, queue_item, manager_ret, fed,
                 on_chunk_log, sput_log, chunks_at_stop, sputs_at_stop>>

\* audio.py:317  self._streaming_mode = True
ManagerStartMode ==
  /\ pc["key"] = "as_mode"
  /\ streaming_mode' = TRUE
  /\ Goto("key", "as_callback")
  /\ UNCHANGED <<extVars, is_collecting, audio_buffer, current_silence_s,
                 is_potentially_speaking, transcription_queue,
                 unfinished_tasks, transcribed_chunks, main_loop_active,
                 stream_open, listening, ret, cb, segment_data, audio_data,
                 text, final_text, put_log, acks, outcome, over_ack,
                 puts_at_join, n_callbacks, n_sessions, streaming_buffer,
                 streaming_callback, streaming_chunk_size_samples,
                 streaming_queue, streaming_stop_event, stream_chunks,
                 finalized, s_local, remaining, osc_arg, queue_item,
                 manager_ret, fed, on_chunk_log, sput_log, chunks_at_stop,
                 sputs_at_stop>>

\* audio.py:318  self._streaming_callback = on_chunk_callback
ManagerStartCallback ==
  /\ pc["key"] = "as_callback"
  /\ streaming_callback' = TRUE
  /\ Goto("key", "as_size")
  /\ UNCHANGED <<extVars, is_collecting, audio_buffer, current_silence_s,
                 is_potentially_speaking, streaming_mode,
                 transcription_queue, unfinished_tasks, transcribed_chunks,
                 main_loop_active, stream_open, listening, ret, cb,
                 segment_data, audio_data, text, final_text, put_log, acks,
                 outcome, over_ack, puts_at_join, n_callbacks, n_sessions,
                 streaming_buffer, streaming_chunk_size_samples,
                 streaming_queue, streaming_stop_event, stream_chunks,
                 finalized, s_local, remaining, osc_arg, queue_item,
                 manager_ret, fed, on_chunk_log, sput_log, chunks_at_stop,
                 sputs_at_stop>>

\* audio.py:319  self._streaming_chunk_size_samples = int(...), with the
\* chunk_size_ms read from the model at streaming.py:136-138
ManagerStartSize ==
  /\ pc["key"] = "as_size"
  /\ \E ms \in ChunkSizesMs :
       streaming_chunk_size_samples' = ChunkSizeSamples(ms)
  /\ Goto("key", "as_buffer")
  /\ UNCHANGED <<extVars, is_collecting, audio_buffer, current_silence_s,
                 is_potentially_speaking, streaming_mode,
                 transcription_queue, unfinished_tasks, transcribed_chunks,
                 main_loop_active, stream_open, listening, ret, cb,
                 segment_data, audio_data, text, final_text, put_log, acks,
                 outcome, over_ack, puts_at_join, n_callbacks, n_sessions,
                 streaming_buffer, streaming_callback, streaming_queue,
                 streaming_stop_event, stream_chunks, finalized, s_local,
                 remaining, osc_arg, queue_item, manager_ret, fed,
                 on_chunk_log, sput_log, chunks_at_stop, sputs_at_stop>>

\* audio.py:320-323  self._streaming_buffer = []; reset_collected_audio()
ManagerStartBuffer ==
  /\ pc["key"] = "as_buffer"
  /\ streaming_buffer' = <<>>
  /\ ret' = [ret EXCEPT !["key"] = "as_set"]
  /\ Goto("key", "reset_buffer")
  /\ UNCHANGED <<extVars, is_collecting, audio_buffer, current_silence_s,
                 is_potentially_speaking, streaming_mode,
                 transcription_queue, unfinished_tasks, transcribed_chunks,
                 main_loop_active, stream_open, listening, cb,
                 segment_data, audio_data, text, final_text, put_log, acks,
                 outcome, over_ack, puts_at_join, n_callbacks, n_sessions,
                 streaming_callback, streaming_chunk_size_samples,
                 streaming_queue, streaming_stop_event, stream_chunks,
                 finalized, s_local, remaining, osc_arg, queue_item,
                 manager_ret, fed, on_chunk_log, sput_log, chunks_at_stop,
                 sputs_at_stop>>

\* audio.py:326  self.set_is_collecting(True)
ManagerStartSet ==
  /\ pc["key"] = "as_set"
  /\ is_collecting' = TRUE
  /\ Goto("key", "idle")
  /\ UNCHANGED <<extVars, audio_buffer, current_silence_s, is_potentially_speaking,
                 streaming_mode, transcription_queue, unfinished_tasks,
                 transcribed_chunks, main_loop_active, stream_open,
                 listening, ret, cb, segment_data, audio_data, text,
                 final_text, put_log, acks, outcome, over_ack,
                 puts_at_join, n_callbacks, n_sessions, streaming_buffer,
                 streaming_callback, streaming_chunk_size_samples,
                 streaming_queue, streaming_stop_event, stream_chunks,
                 finalized, s_local, remaining, osc_arg, queue_item,
                 manager_ret, fed, on_chunk_log, sput_log, chunks_at_stop,
                 sputs_at_stop>>

manager_start_streaming ==
  \/ ManagerStartCheck \/ ManagerStartMode \/ ManagerStartCallback
  \/ ManagerStartSize \/ ManagerStartBuffer \/ ManagerStartSet

start_streaming ==
  StartInit \/ StartPlaceholder \/ StartThread \/ manager_start_streaming

\* ------------------------------------ AudioManager.stop_streaming
\* audio.py:340-347  not collecting: return; not in streaming mode:
\* stop_recording() instead
ManagerStopCheck ==
  /\ pc["key"] = "ss_check"
  /\ remaining' = NoRemaining
  /\ IF ~is_collecting
       THEN /\ Goto("key", manager_ret)
            /\ UNCHANGED ret
       ELSE IF ~streaming_mode
         THEN /\ Goto("key", "stop_check")
              /\ ret' = [ret EXCEPT !["key"] = manager_ret]
         ELSE /\ Goto("key", "ss_set")
              /\ UNCHANGED ret
  /\ UNCHANGED <<extVars, is_collecting, audio_buffer, current_silence_s,
                 is_potentially_speaking, streaming_mode,
                 transcription_queue, unfinished_tasks, transcribed_chunks,
                 main_loop_active, stream_open, listening, cb,
                 segment_data, audio_data, text, final_text, put_log, acks,
                 outcome, over_ack, puts_at_join, n_callbacks, n_sessions,
                 streaming_buffer, streaming_callback,
                 streaming_chunk_size_samples, streaming_queue,
                 streaming_stop_event, stream_chunks, finalized, s_local,
                 osc_arg, queue_item, manager_ret, fed, on_chunk_log,
                 sput_log, chunks_at_stop, sputs_at_stop>>

\* audio.py:350  self.set_is_collecting(False)
ManagerStopSet ==
  /\ pc["key"] = "ss_set"
  /\ is_collecting' = FALSE
  /\ Goto("key", "ss_if")
  /\ UNCHANGED <<extVars, audio_buffer, current_silence_s, is_potentially_speaking,
                 streaming_mode, transcription_queue, unfinished_tasks,
                 transcribed_chunks, main_loop_active, stream_open,
                 listening, ret, cb, segment_data, audio_data, text,
                 final_text, put_log, acks, outcome, over_ack,
                 puts_at_join, n_callbacks, n_sessions, streaming_buffer,
                 streaming_callback, streaming_chunk_size_samples,
                 streaming_queue, streaming_stop_event, stream_chunks,
                 finalized, s_local, remaining, osc_arg, queue_item,
                 manager_ret, fed, on_chunk_log, sput_log, chunks_at_stop,
                 sputs_at_stop>>

\* audio.py:354  if self._streaming_buffer and self._streaming_callback
ManagerStopIf ==
  /\ pc["key"] = "ss_if"
  /\ IF streaming_buffer # <<>> /\ streaming_callback
       THEN Goto("key", "ss_sum")
       ELSE Goto("key", "ss_reset_mode")
  /\ UNCHANGED <<extVars, is_collecting, audio_buffer, current_silence_s,
                 is_potentially_speaking, streaming_mode,
                 transcription_queue, unfinished_tasks, transcribed_chunks,
                 main_loop_active, stream_open, listening, ret, cb,
                 segment_data, audio_data, text, final_text, put_log, acks,
                 outcome, over_ack, puts_at_join, n_callbacks, n_sessions,
                 streaming_buffer, streaming_callback,
                 streaming_chunk_size_samples, streaming_queue,
                 streaming_stop_event, stream_chunks, finalized, s_local,
                 remaining, osc_arg, queue_item, manager_ret, fed,
                 on_chunk_log, sput_log, chunks_at_stop, sputs_at_stop>>

\* audio.py:355-356  remaining_samples = sum(...); if remaining_samples > 0
ManagerStopSum ==
  /\ pc["key"] = "ss_sum"
  /\ remaining' = [remaining EXCEPT !.samples = SumLen(streaming_buffer)]
  /\ IF SumLen(streaming_buffer) > 0
       THEN Goto("key", "ss_concat")
       ELSE Goto("key", "ss_reset_mode")
  /\ UNCHANGED <<extVars, is_collecting, audio_buffer, current_silence_s,
                 is_potentially_speaking, streaming_mode,
                 transcription_queue, unfinished_tasks, transcribed_chunks,
                 main_loop_active, stream_open, listening, ret, cb,
                 segment_data, audio_data, text, final_text, put_log, acks,
                 outcome, over_ack, puts_at_join, n_callbacks, n_sessions,
                 streaming_buffer, streaming_callback,
                 streaming_chunk_size_samples, streaming_queue,
                 streaming_stop_event, stream_chunks, finalized, s_local,
                 osc_arg, queue_item, manager_ret, fed, on_chunk_log,
                 sput_log, chunks_at_stop, sputs_at_stop>>

\* audio.py:358  remaining_audio = np.concatenate(self._streaming_buffer); on
\* an empty list np.concatenate raises ValueError, which no handler of
\* stop_streaming or on_activate catches: the key listener thread ends
ManagerStopConcat ==
  /\ pc["key"] = "ss_concat"
  /\ IF streaming_buffer = <<>>
       THEN /\ Goto("key", "crashed")
            /\ UNCHANGED remaining
       ELSE /\ Goto("key", "ss_call")
            /\ remaining' =
                 [remaining EXCEPT !.audio = NpConcatenate(streaming_buffer)]
  /\ UNCHANGED <<extVars, is_collecting, audio_buffer, current_silence_s,
                 is_potentially_speaking, streaming_mode,
                 transcription_queue, unfinished_tasks, transcribed_chunks,
                 main_loop_active, stream_open, listening, ret, cb,
                 segment_data, audio_data, text, final_text, put_log, acks,
                 outcome, over_ack, puts_at_join, n_callbacks, n_sessions,
                 streaming_buffer, streaming_callback,
                 streaming_chunk_size_samples, streaming_queue,
                 streaming_stop_event, stream_chunks, finalized, s_local,
                 osc_arg, queue_item, manager_ret, fed, on_chunk_log,
                 sput_log, chunks_at_stop, sputs_at_stop>>

\* a stop that delivers no final chunk
NoFinalCall(t, samples) == Goto(t, "ss_reset_mode") /\ UNCHANGED <<extVars, on_chunk_log, osc_arg>>

\* audio.py:363  self._streaming_callback(remaining_audio, is_final=True)
FinalCall(t, samples) == OnChunk(t, samples, TRUE)

ManagerStopCall ==
  /\ pc["key"] = "ss_call"
  /\ FinalCall("key", remaining.audio)
  /\ UNCHANGED <<extVars, is_collecting, audio_buffer, current_silence_s,
                 is_potentially_speaking, streaming_mode,
                 transcription_queue, unfinished_tasks, transcribed_chunks,
                 main_loop_active, stream_open, listening, ret, cb,
                 segment_data, audio_data, text, final_text, put_log, acks,
                 outcome, over_ack, puts_at_join, n_callbacks, n_sessions,
                 streaming_buffer, streaming_callback,
                 streaming_chunk_size_samples, streaming_queue,
                 streaming_stop_event, stream_chunks, finalized, s_local,
                 remaining, queue_item, manager_ret, fed, sput_log,
                 chunks_at_stop, sputs_at_stop>>

\* audio.py:373  self._streaming_mode = False
ManagerStopResetMode ==
  /\ pc["key"] = "ss_reset_mode"
  /\ streaming_mode' = FALSE
  /\ Goto("key", "ss_reset_callback")
  /\ UNCHANGED <<extVars, is_collecting, audio_buffer, current_silence_s,
                 is_potentially_speaking, transcription_queue,
                 unfinished_tasks, transcribed_chunks, main_loop_active,
                 stream_open, listening, ret, cb, segment_data, audio_data,
                 text, final_text, put_log, acks, outcome, over_ack,
                 puts_at_join, n_callbacks, n_sessions, streaming_buffer,
                 streaming_callback, streaming_chunk_size_samples,
                 streaming_queue, streaming_stop_event, stream_chunks,
                 finalized, s_local, remaining, osc_arg, queue_item,
                 manager_ret, fed, on_chunk_log, sput_log, chunks_at_stop,
                 sputs_at_stop>>

\* audio.py:374  self._streaming_callback = None
ManagerStopResetCallback ==
  /\ pc["key"] = "ss_reset_callback"
  /\ streaming_callback' = FALSE
  /\ Goto("key", "ss_reset_buffer")
  /\ UNCHANGED <<extVars, is_collecting, audio_buffer, current_silence_s,
                 is_potentially_speaking, streaming_mode,
                 transcription_queue, unfinished_tasks, transcribed_chunks,
                 main_loop_active, stream_open, listening, ret, cb,
                 segment_data, audio_data, text, final_text, put_log, acks,
                 outcome, over_ack, puts_at_join, n_callbacks, n_sessions,
                 streaming_buffer, streaming_chunk_size_samples,
                 streaming_queue, streaming_stop_event, stream_chunks,
                 finalized, s_local, remaining, osc_arg, queue_item,
                 manager_ret, fed, on_chunk_log, sput_log, chunks_at_stop,
                 sputs_at_stop>>

\* audio.py:375  self._streaming_buffer = []
ManagerStopResetBuffer ==
  /\ pc["key"] = "ss_reset_buffer"
  /\ streaming_buffer' = <<>>
  /\ Goto("key", "ss_reset_size")
  /\ UNCHANGED <<extVars, is_collecting, audio_buffer, current_silence_s,
                 is_potentially_speaking, streaming_mode,
                 transcription_queue, unfinished_tasks, transcribed_chunks,
                 main_loop_active, stream_open, listening, ret, cb,
                 segment_data, audio_data, text, final_text, put_log, acks,
                 outcome, over_ack, puts_at_join, n_callbacks, n_sessions,
                 streaming_callback, streaming_chunk_size_samples,
                 streaming_queue, streaming_stop_event, stream_chunks,
                 finalized, s_local, remaining, osc_arg, queue_item,
                 manager_ret, fed, on_chunk_log, sput_log, chunks_at_stop,
                 sputs_at_stop>>

\* audio.py:376-379  self._streaming_chunk_size_samples = 0;
\* reset_collected_audio()
ManagerStopResetSize ==
  /\ pc["key"] = "ss_reset_size"
  /\ streaming_chunk_size_samples' = 0
  /\ ret' = [ret EXCEPT !["key"] = "ss_return"]
  /\ Goto("key", "reset_buffer")
  /\ UNCHANGED <<extVars, is_collecting, audio_buffer, current_silence_s,
                 is_potentially_speaking, streaming_mode,
                 transcription_queue, unfinished_tasks, transcribed_chunks,
                 main_loop_active, stream_open, listening, cb,
                 segment_data, audio_data, text, final_text, put_log, acks,
                 outcome, over_ack, puts_at_join, n_callbacks, n_sessions,
                 streaming_buffer, streaming_callback, streaming_queue,
                 streaming_stop_event, stream_chunks, finalized, s_local,
                 remaining, osc_arg, queue_item, manager_ret, fed,
                 on_chunk_log, sput_log, chunks_at_stop, sputs_at_stop>>

\* AudioManager.stop_streaming returns to its caller
ManagerStopReturn ==
  /\ pc["key"] = "ss_return"
  /\ chunks_at_stop' = Len(on_chunk_log)
  /\ sputs_at_stop' = Len(sput_log)
  /\ Goto("key", manager_ret)
  /\ UNCHANGED <<extVars, is_collecting, audio_buffer, current_silence_s,
                 is_potentially_speaking, streaming_mode,
                 transcription_queue, unfinished_tasks, transcribed_chunks,
                 main_loop_active, stream_open, listening, ret, cb,
                 segment_data, audio_data, text, final_text, put_log, acks,
                 outcome, over_ack, puts_at_join, n_callbacks, n_sessions,
                 streaming_buffer, streaming_callback,
                 streaming_chunk_size_samples, streaming_queue,
                 streaming_stop_event, stream_chunks, finalized, s_local,
                 remaining, osc_arg, queue_item, manager_ret, fed,
                 on_chunk_log, sput_log>>

manager_stop_streaming ==
  \/ ManagerStopCheck \/ ManagerStopSet \/ ManagerStopIf \/ ManagerStopSum
  \/ ManagerStopConcat \/ ManagerStopCall \/ ManagerStopResetMode
  \/ ManagerStopResetCallback \/ ManagerStopResetBuffer
  \/ ManagerStopResetSize \/ ManagerStopReturn

\* --------------------------- the streaming controller driven directly
\* AudioManager.start_streaming(chunk_size_ms, on_chunk_callback) called with
\* on_streaming_chunk while no streaming queue exists: each on_chunk call is
\* received and nothing is queued
FeedStart ==
  /\ pc["key"] = "idle"
  /\ ~is_collecting
  /\ n_sessions < MaxSessions
  /\ n_sessions' = n_sessions + 1
  /\ fed' = <<>>
  /\ on_chunk_log' = <<>>
  /\ sput_log' = <<>>
  /\ chunks_at_stop' = -1
  /\ sputs_at_stop' = -1
  /\ Goto("key", "as_check")
  /\ UNCHANGED <<extVars, is_collecting, audio_buffer, current_silence_s,
                 is_potentially_speaking, streaming_mode,
                 transcription_queue, unfinished_tasks, transcribed_chunks,
                 main_loop_active, stream_open, listening, ret, cb,
                 segment_data, audio_data, text, final_text, put_log, acks,
                 outcome, over_ack, puts_at_join, n_callbacks,
                 streaming_buffer, streaming_callback,
                 streaming_chunk_size_samples, streaming_queue,
                 streaming_stop_event, stream_chunks, finalized, s_local,
                 remaining, osc_arg, queue_item, manager_ret>>

\* AudioManager.stop_streaming() called between two audio callbacks
FeedStop ==
  /\ pc["key"] = "idle"
  /\ pc["audio"] = "idle"
  /\ is_collecting
  /\ manager_ret' = "idle"
  /\ Goto("key", "ss_check")
  /\ UNCHANGED <<extVars, is_collecting, audio_buffer, current_silence_s,
                 is_potentially_speaking, streaming_mode,
                 transcription_queue, unfinished_tasks, transcribed_chunks,
                 main_loop_active, stream_open, listening, ret, cb,
                 segment_data, audio_data, text, final_text, put_log, acks,
                 outcome, over_ack, puts_at_join, n_callbacks, n_sessions,
                 streaming_buffer, streaming_callback,
                 streaming_chunk_size_samples, streaming_queue,
                 streaming_stop_event, stream_chunks, finalized, s_local,
                 remaining, osc_arg, queue_item, fed, on_chunk_log,
                 sput_log, chunks_at_stop, sputs_at_stop>>

\* ------------------------------------------- streaming.stop_streaming
\* streaming.py:185-189  if _streaming_queue: _streaming_queue.join()
StreamStopJoin ==
  /\ pc["key"] = "st_join"
  /\ streaming_queue.exists => streaming_queue.unfinished = 0
  /\ Goto("key", "st_event")
  /\ UNCHANGED <<extVars, is_collecting, audio_buffer, current_silence_s,
                 is_potentially_speaking, streaming_mode,
                 transcription_queue, unfinished_tasks, transcribed_chunks,
                 main_loop_active, stream_open, listening, ret, cb,
                 segment_data, audio_data, text, final_text, put_log, acks,
                 outcome, over_ack, puts_at_join, n_callbacks, n_sessions,
                 streaming_buffer, streaming_callback,
                 streaming_chunk_size_samples, streaming_queue,
                 streaming_stop_event, stream_chunks, finalized, s_local,
                 remaining, osc_arg, queue_item, manager_ret, fed,
                 on_chunk_log, sput_log, chunks_at_stop, sputs_at_stop>>

\* streaming.py:195-196  if _streaming_stop_event: _streaming_stop_event.set()
StreamStopEvent ==
  /\ pc["key"] = "st_event"
  /\ streaming_stop_event' =
       IF streaming_stop_event = "None" THEN "None" ELSE "set"
  /\ Goto("key", "st_sentinel")
  /\ UNCHANGED <<extVars, is_collecting, audio_buffer, current_silence_s,
                 is_potentially_speaking, streaming_mode,
                 transcription_queue, unfinished_tasks, transcribed_chunks,
                 main_loop_active, stream_open, listening, ret, cb,
                 segment_data, audio_data, text, final_text, put_log, acks,
                 outcome, over_ack, puts_at_join, n_callbacks, n_sessions,
                 streaming_buffer, streaming_callback,
                 streaming_chunk_size_samples, streaming_queue,
                 stream_chunks, finalized, s_local, remaining, osc_arg,
                 queue_item, manager_ret, fed, on_chunk_log, sput_log,
                 chunks_at_stop, sputs_at_stop>>

\* streaming.py:199-203  if _streaming_queue: put_nowait(None), queue.Full
\* ignored
StreamStopSentinel ==
  /\ pc["key"] = "st_sentinel"
  /\ streaming_queue' =
       IF streaming_queue.exists
         THEN PutNowait(streaming_queue, StreamSentinel)
         ELSE streaming_queue
  /\ Goto("key", "st_worker_join")
  /\ UNCHANGED <<extVars, is_collecting, audio_buffer, current_silence_s,
                 is_potentially_speaking, streaming_mode,
                 transcription_queue, unfinished_tasks, transcribed_chunks,
                 main_loop_active, stream_open, listening, ret, cb,
                 segment_data, audio_data, text, final_text, put_log, acks,
                 outcome, over_ack, puts_at_join, n_callbacks, n_sessions,
                 streaming_buffer, streaming_callback,
                 streaming_chunk_size_samples, streaming_stop_event,
                 stream_chunks, finalized, s_local, remaining, osc_arg,
                 queue_item, manager_ret, fed, on_chunk_log, sput_log,
                 chunks_at_stop, sputs_at_stop>>

\* streaming.py:206-210  _streaming_worker_thread.join(timeout=2.0): returns
\* when the worker has ended or the timeout has passed
StreamStopWorkerJoin ==
  /\ pc["key"] = "st_worker_join"
  /\ Goto("key", "st_finalize")
  /\ UNCHANGED <<extVars, is_collecting, audio_buffer, current_silence_s,
                 is_potentially_speaking, streaming_mode,
                 transcription_queue, unfinished_tasks, transcribed_chunks,
                 main_loop_active, stream_open, listening, ret, cb,
                 segment_data, audio_data, text, final_text, put_log, acks,
                 outcome, over_ack, puts_at_join, n_callbacks, n_sessions,
                 streaming_buffer, streaming_callback,
                 streaming_chunk_size_samples, streaming_queue,
                 streaming_stop_event, stream_chunks, finalized, s_local,
                 remaining, osc_arg, queue_item, manager_ret, fed,
                 on_chunk_log, sput_log, chunks_at_stop, sputs_at_stop>>

\* what the backend has decoded: the first buffer of each chunk passed to it
StreamText(chunks) ==
  SpaceJoin([i \in 1..Len(chunks) |->
               IF chunks[i].data = <<>> THEN <<>> ELSE BackendText(chunks[i].data)])

\* streaming.py:214  final_text = state.stt_model.finalize_streaming(), which
\* returns "" when no streaming session is active (nemotron.py:353-355)
StreamStopFinalize ==
  /\ pc["key"] = "st_finalize"
  /\ finalized' = TRUE
  /\ final_text' = IF finalized THEN <<>> ELSE StreamText(stream_chunks)
  /\ Goto("key", "st_cleanup")
  /\ UNCHANGED <<extVars, is_collecting, audio_buffer, current_silence_s,
                 is_potentially_speaking, streaming_mode,
                 transcription_queue, unfinished_tasks, transcribed_chunks,
                 main_loop_active, stream_open, listening, ret, cb,
                 segment_data, audio_data, text, put_log, acks, outcome,
                 over_ack, puts_at_join, n_callbacks, n_sessions,
                 streaming_buffer, streaming_callback,
                 streaming_chunk_size_samples, streaming_queue,
                 streaming_stop_event, stream_chunks, s_local, remaining,
                 osc_arg, queue_item, manager_ret, fed, on_chunk_log,
                 sput_log, chunks_at_stop, sputs_at_stop>>

\* streaming.py:222-226  the globals are set to None; on_activate goes on with
\* the final text
StreamStopCleanup ==
  /\ pc["key"] = "st_cleanup"
  /\ streaming_queue' = NoQueue
  /\ streaming_stop_event' = "None"
  /\ Goto("key", "idle")
  /\ UNCHANGED <<extVars, is_collecting, audio_buffer, current_silence_s,
                 is_potentially_speaking, streaming_mode,
                 transcription_queue, unfinished_tasks, transcribed_chunks,
                 main_loop_active, stream_open, listening, ret, cb,
                 segment_data, audio_data, text, final_text, put_log, acks,
                 outcome, over_ack, puts_at_join, n_callbacks, n_sessions,
                 streaming_buffer, streaming_callback,
                 streaming_chunk_size_samples, stream_chunks, finalized,
                 s_local, remaining, osc_arg, queue_item, manager_ret, fed,
                 on_chunk_log, sput_log, chunks_at_stop, sputs_at_stop>>

stop_streaming ==
  \/ StreamStopJoin \/ StreamStopEvent \/ StreamStopSentinel
  \/ StreamStopWorkerJoin \/ StreamStopFinalize \/ StreamStopCleanup

\* --------------------------------------- streaming._streaming_worker
\* streaming.py:34  while not _streaming_stop_event.is_set(); once the global
\* is None the read raises and the thread ends
StreamWorkerLoop ==
  /\ pc["sworker"] = "sw_loop"
  /\ IF streaming_stop_event = "clear"
       THEN Goto("sworker", "sw_get")
       ELSE Goto("sworker", "exited")
  /\ UNCHANGED <<extVars, is_collecting, audio_buffer, current_silence_s,
                 is_potentially_speaking, streaming_mode,
                 transcription_queue, unfinished_tasks, transcribed_chunks,
                 main_loop_active, stream_open, listening, ret, cb,
                 segment_data, audio_data, text, final_text, put_log, acks,
                 outcome, over_ack, puts_at_join, n_callbacks, n_sessions,
                 streaming_buffer, streaming_callback,
                 streaming_chunk_size_samples, streaming_queue,
                 streaming_stop_event, stream_chunks, finalized, s_local,
                 remaining, osc_arg, queue_item, manager_ret, fed,
                 on_chunk_log, sput_log, chunks_at_stop, sputs_at_stop>>

\* streaming.py:37-42  queue_item = _streaming_queue.get(timeout=0.1):
\* queue.Empty goes back to the loop test, the sentinel ends the loop; once
\* the global is None the read raises, and so does the handler: the thread ends
StreamWorkerGet ==
  /\ pc["sworker"] = "sw_get"
  /\ IF ~streaming_queue.exists
       THEN /\ Goto("sworker", "exited")
            /\ UNCHANGED <<streaming_queue, queue_item>>
       ELSE IF streaming_queue.items = <<>>
         THEN /\ Goto("sworker", "sw_loop")
              /\ UNCHANGED <<streaming_queue, queue_item>>
         ELSE /\ queue_item' = Head(streaming_queue.items)
              /\ streaming_queue' =
                   [streaming_queue EXCEPT !.items = Tail(@)]
              /\ IF Head(streaming_queue.items).none
                   THEN Goto("sworker", "exited")
                   ELSE Goto("sworker", "sw_stream")
  /\ UNCHANGED <<extVars, is_collecting, audio_buffer, current_silence_s,
                 is_potentially_speaking, streaming_mode,
                 transcription_queue, unfinished_tasks, transcribed_chunks,
                 main_loop_active, stream_open, listening, ret, cb,
                 segment_data, audio_data, text, final_text, put_log, acks,
                 outcome, over_ack, puts_at_join, n_callbacks, n_sessions,
                 streaming_buffer, streaming_callback,
                 streaming_chunk_size_samples, streaming_stop_event,
                 stream_chunks, finalized, s_local, remaining, osc_arg,
                 manager_ret, fed, on_chunk_log, sput_log, chunks_at_stop,
                 sputs_at_stop>>

\* how stream_chunk can end
StreamOutcomes == {"text", "raise"}

\* streaming.py:60  text = state.stt_model.stream_chunk(audio_samples,
\* is_final=is_final); an exception goes to the handler at 86-91
StreamWorkerChunk(allowed) ==
  /\ pc["sworker"] = "sw_stream"
  /\ stream_chunks' = Append(stream_chunks, queue_item)
  /\ \E o \in allowed :
       IF o = "text"
         THEN /\ text' = StreamText(stream_chunks')
              /\ Goto("sworker", "sw_text")
         ELSE /\ UNCHANGED text
              /\ Goto("sworker", "sw_done")
  /\ UNCHANGED <<extVars, is_collecting, audio_buffer, current_silence_s,
                 is_potentially_speaking, streaming_mode,
                 transcription_queue, unfinished_tasks, transcribed_chunks,
                 main_loop_active, stream_open, listening, ret, cb,
                 segment_data, audio_data, final_text, put_log, acks,
                 outcome, over_ack, puts_at_join, n_callbacks, n_sessions,
                 streaming_buffer, streaming_callback,
                 streaming_chunk_size_samples, streaming_queue,
                 streaming_stop_event, finalized, s_local, remaining,
                 osc_arg, queue_item, manager_ret, fed, on_chunk_log,
                 sput_log, chunks_at_stop, sputs_at_stop>>

\* streaming.py:63-69  the cumulative text replaces the last entry
StreamWorkerText ==
  /\ pc["sworker"] = "sw_text"
  /\ transcribed_chunks' =
       IF text = <<>> THEN transcribed_chunks
       ELSE IF transcribed_chunks # <<>>
         THEN [transcribed_chunks EXCEPT ![Len(transcribed_chunks)] = text]
         ELSE << text >>
  /\ Goto("sworker", "sw_done")
  /\ UNCHANGED <<extVars, is_collecting, audio_buffer, current_silence_s,
                 is_potentially_speaking, streaming_mode,
                 transcription_queue, unfinished_tasks, main_loop_active,
                 stream_open, listening, ret, cb, segment_data, audio_data,
                 text, final_text, put_log, acks, outcome, over_ack,
                 puts_at_join, n_callbacks, n_sessions, streaming_buffer,
                 streaming_callback, streaming_chunk_size_samples,
                 streaming_queue, streaming_stop_event, stream_chunks,
                 finalized, s_local, remaining, osc_arg, queue_item,
                 manager_ret, fed, on_chunk_log, sput_log, chunks_at_stop,
                 sputs_at_stop>>

\* Queue.task_done() on the streaming queue; ValueError (no unfinished task)
\* and, in the handler, any error are swallowed or end the thread
StreamTaskDone(q) ==
  IF q.exists /\ q.unfinished > 0 THEN [q EXCEPT !.unfinished = @ - 1] ELSE q

\* streaming.py:81, 89  _streaming_queue.task_done(); the locals queue_item
\* and text are assigned again before the next iteration reads them
StreamWorkerDone ==
  /\ pc["sworker"] = "sw_done"
  /\ streaming_queue' = StreamTaskDone(streaming_queue)
  /\ queue_item' = StreamSentinel
  /\ text' = <<>>
  /\ Goto("sworker", "sw_loop")
  /\ UNCHANGED <<extVars, is_collecting, audio_buffer, current_silence_s,
                 is_potentially_speaking, streaming_mode,
                 transcription_queue, unfinished_tasks, transcribed_chunks,
                 main_loop_active, stream_open, listening, ret, cb,
                 segment_data, audio_data, final_text, put_log, acks,
                 outcome, over_ack, puts_at_join, n_callbacks, n_sessions,
                 streaming_buffer, streaming_callback,
                 streaming_chunk_size_samples, streaming_stop_event,
                 stream_chunks, finalized, s_local, remaining, osc_arg,
                 manager_ret, fed, on_chunk_log, sput_log, chunks_at_stop,
                 sputs_at_stop>>

streaming_worker(allowed) ==
  \/ StreamWorkerLoop \/ StreamWorkerGet \/ StreamWorkerChunk(allowed)
  \/ StreamWorkerText \/ StreamWorkerDone

\* ------------------------------------ the recording interface, call by call
\* the calls: AudioManager.start_recording, stop_recording, start_streaming
\* and stop_streaming, and streaming.start_streaming and stop_streaming
ManagerOps == {"start_recording", "stop_recording",
               "manager_start_streaming", "manager_stop_streaming"}
StartOps == {"start_recording", "manager_start_streaming", "start_streaming"}
StopOps == {"stop_recording", "manager_stop_streaming", "stop_streaming"}

\* the first statement of each call
EntryLabel(op) ==
  CASE op = "start_recording" -> "reset_buffer"
    [] op = "stop_recording" -> "stop_check"
    [] op = "manager_start_streaming" -> "as_check"
    [] op = "manager_stop_streaming" -> "ss_check"
    [] op = "start_streaming" -> "st_init"
    [] op = "stop_streaming" -> "ss_check"

\* a caller makes the call op between two audio callbacks and waits for it to
\* return.  The history of buffers starts anew with each start call.
Call(op) ==
  /\ pc["key"] = "idle"
  /\ pc["audio"] = "idle"
  /\ call.n < MaxCalls
  /\ call' = [op |-> op, prev |-> call.op, active |-> is_collecting,
              n |-> call.n + 1, puts |-> Len(put_log)]
  /\ heard' = IF op \in StartOps THEN <<>> ELSE heard
  /\ Goto("key", EntryLabel(op))
  /\ ret' = [ret EXCEPT !["key"] =
               IF op = "start_recording" THEN "start_set" ELSE "idle"]
  /\ manager_ret' = IF op = "stop_streaming" THEN "st_join" ELSE "idle"
  /\ UNCHANGED <<uiVars, fileVars, routeVars, dbVars, logVars, audioVars, queueVars, transcribed_chunks, mainVars,
                 cb, segment_data, workerVars, final_text, puts_at_join,
                 boundVars, managerVars, globalVars, backendVars, s_local,
                 remaining, osc_arg, queue_item, historyVars>>

\* a buffer arrives while no call is in progress, and is noted in the history
HeardCallbackEnter(frameSizes, rmsLevels, limit) ==
  /\ pc["key"] = "idle"
  /\ BufferArrives(frameSizes, rmsLevels, limit)
  /\ heard' = Append(heard, [frames |-> cb'.frames, rms |-> cb'.rms])

\* --------------------------------------------- the TUI: timer and swaps
\* the variables of the recording program, which the TUI's handlers leave
\* alone
recVars == <<audioVars, queueVars, transcribed_chunks, mainVars, pc, ret, cb,
             segment_data, workerVars, final_text, puts_at_join, boundVars,
             streamVars, fileVars, logVars, routeVars, dbVars>>

\* app.py:152-155, state.py:75  the interval timer of CtrlSpeakApp copies
\* audio_manager.is_collecting into app_state.is_recording
update_recording_state ==
  /\ app_is_recording' = is_collecting
  /\ UNCHANGED <<harnessVars, recVars, modelVars, is_loading_model,
                 loaded_model, selected_model, loaded_device, selected_device,
                 model_swap_lock, deviceVars, taskVars>>

\* a lock that every acquire gets
LockAcquireAlways(lock) == TRUE

\* threading.Lock.acquire(blocking=False): True iff the lock is free
LockAcquire(lock) == ~lock

\* task t's locals when it has selected entry m and returned r
Returned(m, r) == [NoTaskLocal EXCEPT !.selected = m, !.result = r]

\* app.py:227-237  hot_swap_model up to its first await: the non-blocking
\* acquire of model_swap_lock, return False when it is held, else
\* is_loading_model = True
HotSwapModelBegin(t, m) ==
  IF LockAcquire(model_swap_lock)
    THEN /\ model_swap_lock' = TRUE
         /\ is_loading_model' = TRUE
         /\ upc' = [upc EXCEPT ![t] = "resolve"]
         /\ ulocal' = [ulocal EXCEPT ![t] = Returned(m, "none")]
    ELSE /\ ulocal' = [ulocal EXCEPT ![t] = Returned(m, "False")]
         /\ UNCHANGED <<model_swap_lock, is_loading_model, upc>>

\* model_selection.py:110-157  ModelSelectionScreen.on_list_view_selected:
\* the entry already loaded, the is_recording and is_loading_model tests,
\* selected_model, and the call of hot_swap_model
ModelListViewSelected(t) ==
  /\ upc[t] = "idle"
  /\ n_selections < MaxSelections
  /\ n_selections' = n_selections + 1
  /\ \E m \in ModelAliases :
       IF m = loaded_model \/ app_is_recording \/ is_loading_model
         THEN /\ ulocal' = [ulocal EXCEPT ![t] =
                   Returned(m, IF m = loaded_model THEN "already_loaded"
                               ELSE IF app_is_recording THEN "recording"
                               ELSE "loading")]
              /\ UNCHANGED <<selected_model, model_swap_lock,
                             is_loading_model, upc>>
         ELSE /\ selected_model' = m
              /\ HotSwapModelBegin(t, m)
  /\ UNCHANGED <<harnessVars, recVars, modelVars, app_is_recording,
                 loaded_model, loaded_device, selected_device, deviceVars>>

\* app.py:205-237  hot_swap_model called by a task of the event loop
HotSwapModelCall(t) ==
  /\ upc[t] = "idle"
  /\ n_selections < MaxSelections
  /\ n_selections' = n_selections + 1
  /\ \E m \in ModelAliases : HotSwapModelBegin(t, m)
  /\ UNCHANGED <<harnessVars, recVars, modelVars, app_is_recording,
                 loaded_model, selected_model, loaded_device, selected_device,
                 deviceVars>>

\* app.py:242-260  after the awaits of push_screen and sleep: the alias is
\* resolved (dict.get, which cannot fail), old_model_type = state.model_type,
\* state.model_type = full_model_name
HotSwapModelResolve(t) ==
  /\ upc[t] = "resolve"
  /\ ulocal' = [ulocal EXCEPT ![t].old_model_type = model_type]
  /\ model_type' = ResolveModelAlias(ulocal[t].selected)
  /\ upc' = [upc EXCEPT ![t] = "unload"]
  /\ UNCHANGED <<harnessVars, recVars, stt_model, model_loaded, appVars,
                 deviceVars, n_selections>>

\* app.py:269-270  old_model = state.stt_model; state.stt_model = None
HotSwapModelUnload(t) ==
  /\ upc[t] = "unload"
  /\ ulocal' = [ulocal EXCEPT ![t].old_model = stt_model]
  /\ stt_model' = NoModel
  /\ upc' = [upc EXCEPT ![t] = "unloaded"]
  /\ UNCHANGED <<harnessVars, recVars, model_type, model_loaded, appVars,
                 deviceVars, n_selections>>

\* app.py:271-272  state.model_loaded = False; del old_model
HotSwapModelUnloaded(t) ==
  /\ upc[t] = "unloaded"
  /\ model_loaded' = FALSE
  /\ upc' = [upc EXCEPT ![t] = "get_check"]
  /\ UNCHANGED <<harnessVars, recVars, stt_model, model_type, appVars,
                 deviceVars, ulocal, n_selections>>

\* model_loader.py:26-27  on the executor's thread:
\* if state.stt_model is not None: return state.stt_model
GetModelCheck(t) ==
  /\ upc[t] = "get_check"
  /\ IF stt_model # NoModel
       THEN /\ ulocal' = [ulocal EXCEPT ![t].new_model = stt_model]
            /\ upc' = [upc EXCEPT ![t] = "got"]
       ELSE /\ upc' = [upc EXCEPT ![t] = "get_create"]
            /\ UNCHANGED ulocal
  /\ UNCHANGED <<harnessVars, recVars, modelVars, appVars, deviceVars,
                 n_selections>>

\* how ModelFactory.get_model and load_model can end
LoadOutcomes == {"ok", "raise"}

\* model_loader.py:33-44  state.stt_model = ModelFactory.get_model(
\* model_type=state.model_type), or ModelLoadError
GetModelCreate(t) ==
  /\ upc[t] = "get_create"
  /\ \E o \in LoadOutcomes :
       IF o = "ok"
         THEN /\ stt_model' = Model(model_type, FALSE)
              /\ upc' = [upc EXCEPT ![t] = "get_load"]
         ELSE /\ upc' = [upc EXCEPT ![t] = "got"]
              /\ UNCHANGED stt_model
  /\ UNCHANGED <<harnessVars, recVars, model_type, model_loaded, appVars,
                 deviceVars, ulocal, n_selections>>

\* model_loader.py:46-57  state.stt_model.load_model(), or ModelLoadError
GetModelLoad(t) ==
  /\ upc[t] = "get_load"
  /\ \E o \in LoadOutcomes :
       IF o = "ok"
         THEN /\ stt_model' = Model(stt_model.type, TRUE)
              /\ upc' = [upc EXCEPT ![t] = "get_flag"]
         ELSE /\ upc' = [upc EXCEPT ![t] = "got"]
              /\ UNCHANGED stt_model
  /\ UNCHANGED <<harnessVars, recVars, model_type, model_loaded, appVars,
                 deviceVars, ulocal, n_selections>>

\* model_loader.py:60-62  state.model_loaded = True; return state.stt_model
GetModelFlag(t) ==
  /\ upc[t] = "get_flag"
  /\ model_loaded' = TRUE
  /\ ulocal' = [ulocal EXCEPT ![t].new_model = stt_model]
  /\ upc' = [upc EXCEPT ![t] = "got"]
  /\ UNCHANGED <<harnessVars, recVars, stt_model, model_type, appVars,
                 deviceVars, n_selections>>

get_model(t) ==
  GetModelCheck(t) \/ GetModelCreate(t) \/ GetModelLoad(t) \/ GetModelFlag(t)

\* app.py:296-315  after the await of run_in_executor: without a model the
\* failure is shown (and sleep(3) awaited); with one state.stt_model =
\* new_model, state.model_loaded = True, app_state.loaded_model = the alias
HotSwapModelLoaded(t) ==
  /\ upc[t] = "got"
  /\ IF ulocal[t].new_model = NoModel
       THEN /\ upc' = [upc EXCEPT ![t] = "restore"]
            /\ UNCHANGED <<stt_model, model_loaded, loaded_model, ulocal>>
       ELSE /\ stt_model' = ulocal[t].new_model
            /\ model_loaded' = TRUE
            /\ loaded_model' = ulocal[t].selected
            /\ ulocal' = [ulocal EXCEPT ![t].result = "True"]
            /\ upc' = [upc EXCEPT ![t] = "finally"]
  /\ UNCHANGED <<harnessVars, recVars, model_type, app_is_recording,
                 is_loading_model, selected_model, loaded_device,
                 selected_device, model_swap_lock, deviceVars, n_selections>>

\* app.py:307-310  state.model_type = old_model_type; return False
HotSwapModelRestore(t) ==
  /\ upc[t] = "restore"
  /\ model_type' = ulocal[t].old_model_type
  /\ ulocal' = [ulocal EXCEPT ![t].result = "False"]
  /\ upc' = [upc EXCEPT ![t] = "finally"]
  /\ UNCHANGED <<harnessVars, recVars, stt_model, model_loaded, appVars,
                 deviceVars, n_selections>>

\* a return that leaves the lock held and the loading flag set
HotSwapModelReturns(t) ==
  /\ upc[t] = "finally"
  /\ upc' = [upc EXCEPT ![t] = "idle"]
  /\ UNCHANGED <<harnessVars, recVars, modelVars, appVars, deviceVars,
                 ulocal, n_selections>>

\* app.py:330-341  finally: is_loading_model = False; model_swap_lock.release()
HotSwapModelFinally(t) ==
  /\ upc[t] = "finally"
  /\ is_loading_model' = FALSE
  /\ model_swap_lock' = FALSE
  /\ upc' = [upc EXCEPT ![t] = "idle"]
  /\ UNCHANGED <<harnessVars, recVars, modelVars, app_is_recording,
                 loaded_model, selected_model, loaded_device, selected_device,
                 deviceVars, ulocal, n_selections>>

hot_swap_model(t) ==
  \/ HotSwapModelResolve(t) \/ HotSwapModelUnload(t)
  \/ HotSwapModelUnloaded(t) \/ get_model(t) \/ HotSwapModelLoaded(t)
  \/ HotSwapModelRestore(t) \/ HotSwapModelFinally(t)

\* how sd.query_devices and restart_input_stream can end: the new stream
\* opens; the device is no input device; the new stream fails and the
\* fallback on the default device opens; both fail
DeviceOutcomes == {"ok", "invalid", "fallback", "fail"}

\* audio.py:461-532  restart_input_stream(d) ending as o: the current
\* stream is stopped and closed, input_device = d, and the new stream, or
\* the fallback stream with input_device = None, becomes current_stream
RestartInputStream(d, o) ==
  /\ input_device' = IF o = "fallback" THEN "None" ELSE d
  /\ current_stream' =
       IF o = "fail" THEN current_stream
       ELSE [device |-> IF o = "ok" THEN d ELSE "None",
             opened |-> current_stream.opened + 1]
  /\ stream_open' = (o # "fail")

\* app.py:343-394  hot_swap_device(d): query_devices, restart_input_stream
\* and app_state.loaded_device = d when both went through
HotSwapDevice(d, o) ==
  IF o = "invalid"
    THEN UNCHANGED <<input_device, current_stream, stream_open, loaded_device>>
    ELSE /\ RestartInputStream(d, o)
         /\ loaded_device' = IF o = "ok" THEN d ELSE loaded_device

\* app.py:370-390  what hot_swap_device reports: True, or False after the
\* notification "Invalid device" or "Failed to switch device" (the error
\* restart_input_stream raised)
DeviceResult(o) ==
  CASE o = "ok" -> "True"
    [] o = "invalid" -> "invalid_device"
    [] OTHER -> "failed_to_switch"

\* device_selection.py:149-183  DeviceSelectionScreen.on_list_view_selected:
\* the device already active, the is_recording test, selected_device, and
\* the call of hot_swap_device, which has no await
DeviceListViewSelected ==
  /\ upc["dev"] = "idle"
  /\ n_selections < MaxSelections
  /\ n_selections' = n_selections + 1
  /\ \E d \in Devices, o \in DeviceOutcomes :
       IF d = loaded_device \/ app_is_recording
         THEN /\ ulocal' = [ulocal EXCEPT !["dev"] =
                   Returned(d, IF d = loaded_device THEN "already_active"
                               ELSE "recording")]
              /\ UNCHANGED <<selected_device, loaded_device, input_device,
                             current_stream, stream_open>>
         ELSE /\ selected_device' = d
              /\ HotSwapDevice(d, o)
              /\ ulocal' = [ulocal EXCEPT !["dev"] =
                   Returned(d, DeviceResult(o))]
  /\ UNCHANGED <<harnessVars, fileVars, routeVars, dbVars, logVars, audioVars, queueVars, transcribed_chunks,
                 main_loop_active, listening, pc, ret, cb, segment_data,
                 workerVars, final_text, puts_at_join, boundVars, streamVars,
                 modelVars, app_is_recording, is_loading_model, loaded_model,
                 selected_model, model_swap_lock, upc>>

\* hotkeys.py:67  hasattr(state, 'app_state_ref') and state.app_state_ref:
\* nothing assigns state.app_state_ref
HasAppStateRef == FALSE

\* hotkeys.py:61-75  on_activate with its start gates: the is_loading_model
\* test behind app_state_ref, and state.model_loaded
OnActivateGated(limit) ==
  IF ~is_collecting /\ ((HasAppStateRef /\ is_loading_model) \/ ~model_loaded)
    THEN /\ pc["key"] = "idle"
         /\ listening
         /\ UNCHANGED vars
    ELSE OnActivateWithin(limit)

\* the clear that opens a session, the history starting anew with it
SessionStartClear == ClearResults /\ heard' = <<>>

\* a buffer passes the gate of the session and is noted in its history
SessionCallbackEnter(frameSizes, rmsLevels, limit) ==
  /\ BufferArrives(frameSizes, rmsLevels, limit)
  /\ heard' = Append(heard, [frames |-> cb'.frames, rms |-> cb'.rms])

\* ------------------------------------------------------- specification
Init ==
  /\ is_collecting = FALSE
  /\ audio_buffer = <<>>
  /\ current_silence_s = 0
  /\ is_potentially_speaking = FALSE
  /\ streaming_mode = FALSE
  /\ transcription_queue = <<>>
  /\ unfinished_tasks = 0
  /\ transcribed_chunks = <<>>
  /\ main_loop_active = TRUE
  /\ stream_open = TRUE
  /\ listening = TRUE
  /\ pc = [t \in Threads |->
             CASE t = "main" -> "loop" [] t = "worker" -> "get"
               [] t = "sworker" -> "unstarted" [] OTHER -> "idle"]
  /\ ret = [t \in Stoppers |-> "idle"]
  /\ cb = [chunk |-> <<>>, frames |-> 0, rms |-> 0]
  /\ segment_data = [t \in Stoppers \cup {"audio"} |-> <<>>]
  /\ audio_data = None
  /\ text = <<>>
  /\ final_text = <<>>
  /\ put_log = <<>>
  /\ acks = 0
  /\ outcome = "none"
  /\ over_ack = FALSE
  /\ puts_at_join = 0
  /\ n_callbacks = 0
  /\ n_sessions = 0
  /\ streaming_buffer = <<>>
  /\ streaming_callback = FALSE
  /\ streaming_chunk_size_samples = 0
  /\ streaming_queue = NoQueue
  /\ streaming_stop_event = "None"
  /\ stream_chunks = <<>>
  /\ finalized = FALSE
  /\ s_local = NoLocal
  /\ remaining = NoRemaining
  /\ osc_arg = [t \in {"audio", "key"} |-> NoArg]
  /\ queue_item = StreamSentinel
  /\ manager_ret = "idle"
  /\ fed = <<>>
  /\ on_chunk_log = <<>>
  /\ sput_log = <<>>
  /\ chunks_at_stop = -1
  /\ sputs_at_stop = -1
  /\ heard = <<>>
  /\ call = NoCall
  /\ stt_model = Model(ResolveModelAlias("parakeet"), TRUE)
  /\ model_type = ResolveModelAlias("parakeet")
  /\ model_loaded = TRUE
  /\ app_is_recording = FALSE
  /\ is_loading_model = FALSE
  /\ loaded_model = "parakeet"
  /\ selected_model = "parakeet"
  /\ loaded_device = "None"
  /\ selected_device = "None"
  /\ model_swap_lock = FALSE
  /\ input_device = "None"
  /\ current_stream = [device |-> "None", opened |-> 0]
  /\ upc = [t \in Tasks |-> "idle"]
  /\ ulocal = [t \in Tasks |-> NoTaskLocal]
  /\ n_selections = 0
  /\ temp_file_path = NoFile
  /\ temp_files = {}
  /\ warnings = <<>>
  /\ current_session_streaming = FALSE
  /\ activate_pc = "none"
  /\ history_rows = <<>>
  /\ history_seq = 0
  /\ add_call = NoAddCall
  /\ returned_ids = {}
  /\ n_history_calls = 0

\* how the backend call can end in a recording session
SessionOutcomes == {"text", "raise", "hang"}

audio_callback(frameSizes, rmsLevels, limit) ==
  \/ AudioCallbackEnter(frameSizes, rmsLevels, limit)
  \/ AudioCallbackRoute
  \/ AudioSpeechAppend \/ AudioSpeechSilence \/ AudioSpeechFlag
  \/ AudioSilenceAdd \/ AudioSilenceCheck \/ AudioSilenceAppend
  \/ AudioFlushIf \/ AudioFlushConcat \/ AudioFlushPut
  \/ AudioFlushResetBuffer \/ AudioFlushResetSilence \/ AudioFlushResetFlag

transcription_worker(allowed) ==
  \/ WorkerGet \/ WorkerGot \/ WorkerWrite
  \/ WorkerTranscribe(allowed) \/ WorkerAppend \/ WorkerDone

\* a queue-mode recording session: the audio callback, the key listener
\* running on_activate, and the transcription worker
Next ==
  \/ audio_callback(FrameSizes, RmsLevels, MaxCallbacks)
  \/ on_activate
  \/ stop_recording("key") \/ reset_collected_audio("key")
  \/ transcription_worker(SessionOutcomes)

Spec == Init /\ [][Next]_vars

\* the steps a thread takes once its handler runs; the key press, the hotkey
\* press and the arrival of an audio buffer are the environment's
KeySteps ==
  \/ StartClear \/ StartSet \/ StopJoin \/ StopAggregate
  \/ stop_recording("key") \/ reset_collected_audio("key")

\* the steps of a callback whose buffer is at or above the threshold
AudioSpeechSteps ==
  \/ AudioCallbackRoute
  \/ AudioSpeechAppend \/ AudioSpeechSilence \/ AudioSpeechFlag

AudioSteps ==
  \/ AudioSpeechSteps
  \/ AudioSilenceAdd \/ AudioSilenceCheck \/ AudioSilenceAppend
  \/ AudioFlushIf \/ AudioFlushConcat \/ AudioFlushPut
  \/ AudioFlushResetBuffer \/ AudioFlushResetSilence \/ AudioFlushResetFlag

MainSteps ==
  \/ MainLoopExit \/ MainFinallyCheck \/ MainFinallyPut \/ MainFinallyJoin
  \/ stop_recording("main") \/ reset_collected_audio("main")

\* every thread is scheduled as long as it can take a step
SpecFair ==
  /\ Spec
  /\ WF_vars(KeySteps)
  /\ WF_vars(AudioSteps)
  /\ WF_vars(transcription_worker(SessionOutcomes))

\* the application with its shutdown by the exit hotkey: a session of loud
\* buffers, exit_app on the hotkey listener, main leaving its loop for its
\* finally block, and the worker
NextShutdown ==
  \/ AudioCallbackEnter({8000}, {RMS_THRESHOLD_MILLI}, ShutdownCallbacks)
  \/ AudioSpeechSteps
  \/ on_activate
  \/ \E t \in Stoppers : stop_recording(t) \/ reset_collected_audio(t)
  \/ HotkeyExit
  \/ exit_app("hot")
  \/ MainLoopExit \/ MainFinallyCheck \/ MainFinallyPut \/ MainFinallyJoin
  \/ transcription_worker({"text", "hang"})

SpecShutdown == Init /\ [][NextShutdown]_vars

\* the main thread is scheduled as long as it can take a step; nothing is
\* assumed of the other threads
SpecShutdownFair == SpecShutdown /\ WF_vars(MainSteps)

\* ------------------------------------------- streaming specifications
\* frames per callback buffer in streaming mode: half a default chunk, a
\* default chunk (two 560 ms chunks)
StreamFrameSizes == {8960, 17920}

\* a streaming session: the audio callback, the key listener running
\* on_activate, and the streaming worker.  A callback that passed the
\* is_collecting gate before stop_streaming reset _streaming_mode takes the
\* queue-mode path.
NextStream ==
  \/ AudioCallbackEnter(StreamFrameSizes, {RMS_THRESHOLD_MILLI}, StreamCallbacks)
  \/ AudioSpeechSteps
  \/ streaming_audio_callback
  \/ on_streaming_chunk("audio")
  \/ OnActivateStreaming
  \/ start_streaming
  \/ manager_stop_streaming
  \/ on_streaming_chunk("key")
  \/ reset_collected_audio("key")
  \/ stop_streaming
  \/ streaming_worker(StreamOutcomes)

SpecStream == Init /\ [][NextStream]_vars

\* frames per callback buffer fed to the streaming controller: a 500-sample
\* buffer, a 560 ms chunk, a 1120 ms chunk
FeedFrameSizes == {500, 8960, 17920}

\* the streaming controller fed one buffer after another and then stopped: no
\* callback starts while a start or stop runs, and stop is not called while a
\* callback runs
NextFeed ==
  \/ FeedStart
  \/ manager_start_streaming
  \/ pc["key"] = "idle"
       /\ AudioCallbackEnter(FeedFrameSizes, {RMS_THRESHOLD_MILLI}, MaxCallbacks)
  \/ AudioCallbackRoute
  \/ streaming_audio_callback
  \/ OnStreamingChunkCheck("audio")
  \/ FeedStop
  \/ manager_stop_streaming
  \/ OnStreamingChunkCheck("key")
  \/ reset_collected_audio("key")

SpecFeed == Init /\ [][NextFeed]_vars

\* a streaming session of LagCallbacks buffers, one after another, then the
\* stop, with a worker that can lag behind by more chunks than the streaming
\* queue holds
NextLag ==
  \/ pc["key"] = "idle"
       /\ AudioCallbackEnter({17920}, {RMS_THRESHOLD_MILLI}, LagCallbacks)
  \/ AudioCallbackRoute
  \/ streaming_audio_callback
  \/ on_streaming_chunk("audio")
  \/ pc["audio"] = "idle"
       /\ (is_collecting => n_callbacks = LagCallbacks)
       /\ OnActivateStreaming
  \/ start_streaming
  \/ manager_stop_streaming
  \/ on_streaming_chunk("key")
  \/ reset_collected_audio("key")
  \/ stop_streaming
  \/ streaming_worker({"text"})

SpecLag == Init /\ [][NextLag]_vars

\* what a producer can put on the worker's queue: the sentinel, an empty
\* array, or the k-th segment
ProducerItems(k) == {None, Segment(<<>>), Segment(NewChunk(k, 8000))}

\* a producer of work items: work_queue.put(item)
ProducerPut ==
  /\ Len(put_log) < MaxItems
  /\ \E item \in ProducerItems(Len(put_log) + 1) : QueuePut(item)
  /\ UNCHANGED <<extVars, streamVars, audioVars, transcribed_chunks, mainVars, pc, ret, cb,
                 segment_data, workerVars, final_text, puts_at_join, boundVars>>

\* transcription_worker on a queue fed by any producer; the backend call ends
NextWorker ==
  \/ ProducerPut
  \/ transcription_worker(BackendOutcomes \ {"hang"})

SpecWorker == Init /\ [][NextWorker]_vars

\* the worker thread is scheduled as long as it can take a step
SpecWorkerFair ==
  SpecWorker /\ WF_vars(transcription_worker(BackendOutcomes \ {"hang"}))

\* ------------------------------------------ segmentation specification
\* frames per callback buffer: 0.25 s, 0.5 s and 1.0 s
SegFrameSizes == {4000, 8000, 16000}

\* every buffer fed so far has f frames
AllOfSize(f) == \A i \in 1..Len(heard) : heard[i].frames = f
\* every buffer fed so far is at or above the threshold
AllSpeech == \A i \in 1..Len(heard) : IsSpeechChunk(heard[i].rms)

\* buffers of one size, those at or above the threshold first
FeedUniform ==
  \E f \in FrameSizes, r \in RmsLevels :
    /\ AllOfSize(f)
    /\ IsSpeechChunk(r) => AllSpeech
    /\ HeardCallbackEnter({f}, {r}, SegCallbacks)

\* buffers of any size and level
FeedMixed == HeardCallbackEnter(SegFrameSizes, RmsLevels, MixedCallbacks)

\* one queue-mode recording driven call by call: start_recording, one audio
\* callback after another, stop_recording
NextSegment ==
  \/ call.op = "none" /\ Call("start_recording")
  \/ Call("stop_recording")
  \/ StartSet
  \/ FeedUniform
  \/ FeedMixed
  \/ AudioSteps
  \/ stop_recording("key") \/ reset_collected_audio("key")

SpecSegment == Init /\ [][NextSegment]_vars

\* audio callbacks fed one after another with buffers of one size
EqualCallbacks == 7

\* buffers of one size and of any level
FeedEqual ==
  \E f \in SegFrameSizes :
    /\ AllOfSize(f)
    /\ HeardCallbackEnter({f}, RmsLevels, EqualCallbacks)

\* one queue-mode recording driven call by call and fed equal-length buffers
NextEqual ==
  \/ call.op = "none" /\ Call("start_recording")
  \/ Call("stop_recording")
  \/ StartSet
  \/ FeedEqual
  \/ AudioSteps
  \/ stop_recording("key") \/ reset_collected_audio("key")

SpecEqual == Init /\ [][NextEqual]_vars

\* ---------------------------------------------- interface specification
\* the recording interface driven call by call, in any order, with loud 0.5 s
\* buffers arriving between the calls, and the streaming worker
NextApi ==
  \/ \E op \in ManagerOps \cup {"start_streaming", "stop_streaming"} : Call(op)
  \/ StartSet
  \/ HeardCallbackEnter({8000}, {RMS_THRESHOLD_MILLI}, ApiCallbacks)
  \/ AudioSpeechSteps
  \/ streaming_audio_callback
  \/ on_streaming_chunk("audio")
  \/ start_streaming
  \/ manager_stop_streaming
  \/ on_streaming_chunk("key")
  \/ stop_recording("key") \/ reset_collected_audio("key")
  \/ stop_streaming
  \/ streaming_worker({"text"})

SpecApi == Init /\ [][NextApi]_vars

\* ------------------------------------------------ faults of the hand-off
FaultCallbacks == 4
FaultCalls == 3

\* a queue-mode session and a streaming session with 1.0 s buffers, in which
\* the put of a segment and the call of on_chunk may raise; a silent buffer
\* of 1.0 s meets the silence threshold, so none is appended
NextFaults ==
  \/ /\ call.n < FaultCalls
     /\ \E op \in {"start_recording", "stop_recording", "start_streaming"} :
          Call(op)
  \/ StartSet
  \/ HeardCallbackEnter({16000}, RmsLevels, FaultCallbacks)
  \/ AudioSpeechSteps
  \/ AudioSilenceAdd \/ AudioSilenceCheck
  \/ AudioFlushIf \/ AudioFlushConcat \/ AudioFlushPut
  \/ AudioFlushResetBuffer \/ AudioFlushResetSilence \/ AudioFlushResetFlag
  \/ AudioFlushPutRaises
  \/ streaming_audio_callback
  \/ StreamCallRaises
  \/ on_streaming_chunk("audio")
  \/ start_streaming
  \/ stop_recording("key") \/ reset_collected_audio("key")

SpecFaults == Init /\ [][NextFaults]_vars

\* -------------------------------------------- buffers without an energy
GlitchCallbacks == 3

\* one queue-mode recording driven call by call with 0.5 s buffers whose rms
\* is finite, NaN or infinite
NextGlitch ==
  \/ call.op = "none" /\ Call("start_recording")
  \/ Call("stop_recording")
  \/ StartSet
  \/ HeardCallbackEnter({8000}, RmsLevels \cup {NaN, Inf}, GlitchCallbacks)
  \/ AudioSteps
  \/ stop_recording("key") \/ reset_collected_audio("key")

SpecGlitch == Init /\ [][NextGlitch]_vars

\* ------------------------------------------------ results of a session
ResultCallbacks == 3
ResultSessions == 1

\* queue-mode sessions in which the hotkey is pressed between two audio
\* callbacks, with buffers of 0.5 s and 1.0 s, and a worker whose backend
\* call may return a text, an empty text or a bad result, or raise
NextResults ==
  \/ /\ pc["key"] = "idle"
     /\ SessionCallbackEnter({8000, 16000}, RmsLevels, ResultCallbacks)
  \/ AudioSteps
  \/ pc["audio"] = "idle" /\ OnActivateWithin(ResultSessions)
  \/ SessionStartClear \/ StartSet \/ StopJoin \/ StopAggregate
  \/ stop_recording("key") \/ reset_collected_audio("key")
  \/ transcription_worker(BackendOutcomes \ {"hang"})

SpecResults == Init /\ [][NextResults]_vars

\* buffers of 1.0 s, one of which meets the silence threshold by itself
SessionFrameSizes == {16000}

\* queue-mode sessions one after another: the audio callback, the key
\* listener running on_activate, and the transcription worker
NextSessions ==
  \/ SessionCallbackEnter(SessionFrameSizes, RmsLevels, SessionCallbacks)
  \/ AudioSteps
  \/ OnActivateWithin(MaxRecordings)
  \/ SessionStartClear \/ StartSet \/ StopJoin \/ StopAggregate
  \/ stop_recording("key") \/ reset_collected_audio("key")
  \/ transcription_worker({"text"})

SpecSessions == Init /\ [][NextSessions]_vars

\* a queue-mode recording next to the TUI: the key listener, one audio
\* callback and the transcription worker
RecordingSteps ==
  \/ OnActivateGated(MaxSessions)
  \/ StartClear \/ StartSet \/ StopJoin \/ StopAggregate
  \/ stop_recording("key") \/ reset_collected_audio("key")
  \/ AudioCallbackEnter({8000}, {RMS_THRESHOLD_MILLI}, SwapCallbacks)
  \/ AudioSpeechSteps
  \/ transcription_worker({"text"})

\* the key listener starting and stopping a queue-mode recording to which no
\* buffer is delivered: stop_recording finds the pending buffer empty
QuietRecordingSteps ==
  \/ OnActivateGated(MaxSessions)
  \/ StartClear \/ StartSet \/ StopJoin \/ StopAggregate
  \/ StopRecordingCheck("key") \/ StopRecordingSet("key")
  \/ StopRecordingIf("key")
  \/ reset_collected_audio("key")

\* the TUI's timer and model list on the event loop, the model load on the
\* executor, and the key listener
NextModelSwap ==
  \/ update_recording_state
  \/ \E t \in ModelTasks : ModelListViewSelected(t) \/ hot_swap_model(t)
  \/ QuietRecordingSteps

SpecModelSwap == Init /\ [][NextModelSwap]_vars

\* the TUI's timer and device list on the event loop, and the recording
NextDeviceSwap ==
  \/ update_recording_state
  \/ DeviceListViewSelected
  \/ RecordingSteps

SpecDeviceSwap == Init /\ [][NextDeviceSwap]_vars

\* hot_swap_model called by two tasks of the event loop
NextSwapCalls ==
  \E t \in ModelTasks : HotSwapModelCall(t) \/ hot_swap_model(t)

SpecSwapCalls == Init /\ [][NextSwapCalls]_vars

\* ------------------------------------- on_activate with both session modes
\* the model identifiers ModelFactory makes a NemotronModel for
\* (factory.py:98  if "nemotron" in model_type)
NemotronTypes == {"nvidia/nemotron-speech-streaming-en-0.6b"}

\* base_model.py:85-91  supports_streaming is False; nemotron.py:161-163
\* NemotronModel overrides it with True
supports_streaming(model) == model.type \in NemotronTypes

\* streaming.py:229-239  state.stt_model is not None and
\* state.stt_model.supports_streaming
is_model_streaming_capable ==
  stt_model # NoModel /\ supports_streaming(stt_model)

\* a stop that asks the loaded model again
SessionModeOfModel == is_model_streaming_capable

\* hotkeys.py:102  if _current_session_streaming
SessionMode == current_session_streaming

\* sessions started while both modes are in use
RouteSessions == 2

\* the aliases swapped in while both modes are in use
RouteAliases == {"parakeet", "nemotron"}

\* hotkeys.py:61-105  on_activate: the start refused by its gates, else the
\* mode chosen from the loaded model and noted in _current_session_streaming;
\* the stop taking the path the flag names
OnActivateRouted(limit) ==
  /\ pc["key"] = "idle"
  /\ listening
  /\ activate_pc = "none"
  /\ IF ~is_collecting
       THEN IF (HasAppStateRef /\ is_loading_model) \/ ~model_loaded
         THEN UNCHANGED vars
         ELSE /\ n_sessions < limit
              /\ n_sessions' = n_sessions + 1
              /\ current_session_streaming' = is_model_streaming_capable
              /\ IF is_model_streaming_capable
                   THEN Goto("key", "st_init")
                   ELSE Goto("key", "start_clear")
              /\ fed' = <<>>
              /\ on_chunk_log' = <<>>
              /\ sput_log' = <<>>
              /\ chunks_at_stop' = -1
              /\ sputs_at_stop' = -1
              /\ UNCHANGED <<activate_pc, ret, manager_ret>>
       ELSE /\ IF SessionMode
                 THEN /\ Goto("key", "ss_check")
                      /\ manager_ret' = "st_join"
                      /\ UNCHANGED ret
                 ELSE /\ Goto("key", "stop_check")
                      /\ ret' = [ret EXCEPT !["key"] = "join"]
                      /\ UNCHANGED manager_ret
            /\ activate_pc' = "stop"
            /\ UNCHANGED <<n_sessions, current_session_streaming, fed,
                           on_chunk_log, sput_log, chunks_at_stop,
                           sputs_at_stop>>
  /\ UNCHANGED <<harnessVars, uiVars, fileVars, logVars, dbVars, audioVars,
                 queueVars, transcribed_chunks, mainVars, cb, segment_data,
                 workerVars, final_text, puts_at_join, n_callbacks,
                 managerVars, globalVars, backendVars, s_local, remaining,
                 osc_arg, queue_item>>

\* hotkeys.py:139  _current_session_streaming = False, once the stop call has
\* returned and the text has been pasted
OnActivateReset ==
  /\ pc["key"] = "idle"
  /\ activate_pc = "stop"
  /\ current_session_streaming' = FALSE
  /\ activate_pc' = "none"
  /\ UNCHANGED <<harnessVars, uiVars, fileVars, logVars, dbVars, audioVars,
                 queueVars, transcribed_chunks, mainVars, pc, ret, cb,
                 segment_data, workerVars, final_text, puts_at_join,
                 boundVars, streamVars>>

\* app.py:227  hot_swap_model called with one of the given aliases
HotSwapModelCallOf(t, names) ==
  /\ upc[t] = "idle"
  /\ n_selections < MaxSelections
  /\ n_selections' = n_selections + 1
  /\ \E m \in names : HotSwapModelBegin(t, m)
  /\ UNCHANGED <<harnessVars, recVars, modelVars, app_is_recording,
                 loaded_model, selected_model, loaded_device, selected_device,
                 deviceVars>>

\* the key listener starting and stopping sessions in the mode of the loaded
\* model, without audio, while the event loop swaps models
NextRoute ==
  \/ OnActivateRouted(RouteSessions)
  \/ OnActivateReset
  \/ StartClear \/ StartSet \/ StopJoin \/ StopAggregate
  \/ StopRecordingCheck("key") \/ StopRecordingSet("key")
  \/ StopRecordingIf("key")
  \/ reset_collected_audio("key")
  \/ start_streaming
  \/ ManagerStopCheck \/ ManagerStopSet \/ ManagerStopIf
  \/ ManagerStopResetMode \/ ManagerStopResetCallback
  \/ ManagerStopResetBuffer \/ ManagerStopResetSize \/ ManagerStopReturn
  \/ stop_streaming
  \/ StreamWorkerLoop \/ StreamWorkerGet
  \/ HotSwapModelCallOf("ui1", RouteAliases)
  \/ hot_swap_model("ui1")

SpecRoute == Init /\ [][NextRoute]_vars

\* ------------------------------------ hot_swap_model's failures in its try
\* app.py:248-256  resolve_model_alias raises: the error is shown and the
\* swap returns False through its finally
HotSwapModelResolveRaises(t) ==
  /\ upc[t] = "resolve"
  /\ ulocal' = [ulocal EXCEPT ![t].result = "False"]
  /\ upc' = [upc EXCEPT ![t] = "finally"]
  /\ UNCHANGED <<harnessVars, recVars, modelVars, appVars, deviceVars,
                 n_selections>>

\* the positions of hot_swap_model on the event loop inside its try
TryPositions == {"resolve", "unload", "unloaded", "got", "restore"}

\* app.py:323-326  except Exception: any other statement of the try raises,
\* the swap returns False through its finally
HotSwapModelRaises(t) ==
  /\ upc[t] \in TryPositions
  /\ ulocal' = [ulocal EXCEPT ![t].result = "False"]
  /\ upc' = [upc EXCEPT ![t] = "finally"]
  /\ UNCHANGED <<harnessVars, recVars, modelVars, appVars, deviceVars,
                 n_selections>>

\* hot_swap_model called from two tasks of the event loop, with every way its
\* try can end
NextSwapOutcomes ==
  \E t \in ModelTasks :
    \/ HotSwapModelCall(t) \/ hot_swap_model(t)
    \/ HotSwapModelResolveRaises(t) \/ HotSwapModelRaises(t)

SpecSwapOutcomes == Init /\ [][NextSwapOutcomes]_vars

\* ------------------------------------------------- utils.HistoryManager
\* the characters of the texts passed to add_entry
Chars == {"x", " ", "\n"}

Whitespace == {" ", "\n"}

\* the texts passed to add_entry: every text of at most two characters
HistoryTexts == {<<>>} \cup { <<c>> : c \in Chars } \cup (Chars \X Chars)

\* str.lstrip(), str.rstrip(), str.strip()
RECURSIVE LStrip(_)
LStrip(t) ==
  IF t # <<>> /\ Head(t) \in Whitespace THEN LStrip(Tail(t)) ELSE t

RECURSIVE RStrip(_)
RStrip(t) ==
  IF t # <<>> /\ t[Len(t)] \in Whitespace
    THEN RStrip(SubSeq(t, 1, Len(t) - 1)) ELSE t

Strip(t) == RStrip(LStrip(t))

\* history.py:148  if not text or not text.strip()
EmptyText(t) == t = <<>> \/ Strip(t) = <<>>

\* the largest id among the rows, 0 without rows
RECURSIVE MaxId(_)
MaxId(rows) ==
  IF rows = <<>> THEN 0
  ELSE LET m == MaxId(Tail(rows))
       IN IF Head(rows).id > m THEN Head(rows).id ELSE m

\* the id of a table without AUTOINCREMENT: one more than the largest in it
RowIdAfterRows(rows, seq) == MaxId(rows) + 1

\* history.py:113  id INTEGER PRIMARY KEY AUTOINCREMENT: one more than the
\* largest id the table ever held
AutoIncrement(rows, seq) == seq + 1

\* how sqlite3 can end an operation
DbOutcomes == {"ok", "raise"}

\* calls made on the HistoryManager
HistoryCalls == 3

\* history.py:129-170  add_entry: None for an empty text; else the stripped
\* text is inserted and committed and cursor.lastrowid returned; an exception
\* of sqlite3 is logged and None returned, nothing being committed
AddEntry(texts, outcomes) ==
  /\ n_history_calls < HistoryCalls
  /\ n_history_calls' = n_history_calls + 1
  /\ returned_ids' =
       IF add_call.none THEN returned_ids
       ELSE returned_ids \cup {add_call.id}
  /\ \E t \in texts, o \in outcomes :
       IF EmptyText(t) \/ o = "raise"
         THEN /\ add_call' = [n |-> n_history_calls', text |-> t,
                              none |-> TRUE, id |-> 0]
              /\ UNCHANGED <<history_rows, history_seq>>
         ELSE LET entry_id == AutoIncrement(history_rows, history_seq)
              IN /\ history_rows' =
                      Append(history_rows, [id |-> entry_id, text |-> Strip(t)])
                 /\ history_seq' = entry_id
                 /\ add_call' = [n |-> n_history_calls', text |-> t,
                                 none |-> FALSE, id |-> entry_id]
  /\ UNCHANGED <<harnessVars, uiVars, fileVars, logVars, routeVars,
                 audioVars, queueVars, transcribed_chunks, mainVars, pc, ret,
                 cb, segment_data, workerVars, final_text, puts_at_join,
                 boundVars, streamVars>>

\* the rows whose id is not the given one
RowsWithout(rows, id) == SelectSeq(rows, LAMBDA r : r.id # id)

\* history.py:254-278  delete_entry: DELETE FROM history WHERE id = ?
DeleteEntry ==
  /\ n_history_calls < HistoryCalls
  /\ n_history_calls' = n_history_calls + 1
  /\ \E id \in 1..HistoryCalls, o \in DbOutcomes :
       history_rows' =
         IF o = "ok" THEN RowsWithout(history_rows, id) ELSE history_rows
  /\ UNCHANGED <<harnessVars, uiVars, fileVars, logVars, routeVars,
                 audioVars, queueVars, transcribed_chunks, mainVars, pc, ret,
                 cb, segment_data, workerVars, final_text, puts_at_join,
                 boundVars, streamVars,
                 history_seq, add_call, returned_ids>>

\* history.py:280-296  clear_all: DELETE FROM history
ClearAll ==
  /\ n_history_calls < HistoryCalls
  /\ n_history_calls' = n_history_calls + 1
  /\ \E o \in DbOutcomes :
       history_rows' = IF o = "ok" THEN <<>> ELSE history_rows
  /\ UNCHANGED <<harnessVars, uiVars, fileVars, logVars, routeVars,
                 audioVars, queueVars, transcribed_chunks, mainVars, pc, ret,
                 cb, segment_data, workerVars, final_text, puts_at_join,
                 boundVars, streamVars,
                 history_seq, add_call, returned_ids>>

\* the HistoryManager called again and again
NextHistory ==
  \/ AddEntry(HistoryTexts, DbOutcomes)
  \/ DeleteEntry
  \/ ClearAll

SpecHistory == Init /\ [][NextHistory]_vars

\* ------------------------------------------------------------ claims
\* the positions of the segments among the items put
SegmentPuts == { i \in 1..Len(put_log) : ~put_log[i].none }

\* the number of items the worker has taken from the queue
Dequeued == Len(put_log) - Len(transcription_queue)

\* the k-th item put has been taken and the worker is through with it
Processed(k) ==
  \/ k < Dequeued
  \/ k = Dequeued /\ pc["worker"] \in {"get", "exited"}

\* C1: when transcription_queue.join() has returned in the stop path, every
\* item put before it returned, the final segment of stop_recording included,
\* has been taken and acknowledged by the worker; an item taken but still
\* being transcribed keeps join() blocked.
C1_JoinOnlyAfterAllAcknowledged ==
  pc["key"] = "aggregate" => \A k \in 1..puts_at_join : Processed(k)

\* join() has returned for a session with a silence-flushed segment and the
\* final segment of stop_recording, both transcribed
C1_Witness ==
  /\ pc["key"] = "aggregate"
  /\ puts_at_join = 2
  /\ Len(transcribed_chunks) = 2

\* C2: every item the worker takes is acknowledged with task_done exactly
\* once on every path (sentinel, empty audio, write failure, backend
\* exception, unexpected exception, success), and unfinished_tasks is the
\* number of items put and not yet acknowledged: those queued, and the one
\* the worker holds.
C2_AcknowledgedExactlyOnce ==
  /\ ~over_ack
  /\ acks <= 1
  /\ (Dequeued > 0 /\ pc["worker"] \in {"get", "exited"}) => acks = 1
  /\ unfinished_tasks =
       Len(transcription_queue) + (IF Dequeued > 0 /\ acks = 0 THEN 1 ELSE 0)

\* the worker has left its loop on the sentinel after two other items, all
\* three acknowledged
C2_Witness ==
  /\ pc["worker"] = "exited"
  /\ outcome = "sentinel"
  /\ Dequeued = 3
  /\ unfinished_tasks = 0

\* the backend call for the item the worker holds raised or returned no
\* usable result
BackendFailed == outcome \in {"raise", "bad_result"}

\* the k-th item put is a segment put before any sentinel
BeforeSentinel(k) ==
  /\ Len(put_log) >= k
  /\ \A i \in 1..k : ~put_log[i].none

\* C3: an item whose transcribe_batch raises or returns no usable result adds
\* no text to the results list and does not end the worker, and every item
\* put before the sentinel, the ones after the failed item included, is
\* still taken by the worker.
C3_BackendFailureIsLocal ==
  /\ [][BackendFailed =>
          /\ transcribed_chunks' = transcribed_chunks
          /\ pc'["worker"] # "exited"]_vars
  /\ \A k \in 1..MaxItems : BeforeSentinel(k) ~> (Dequeued >= k)

\* the worker is taking the item put after one whose backend call raised,
\* with the text of an earlier item in the results
C3_Witness ==
  /\ outcome = "raise"
  /\ pc["worker"] = "get"
  /\ Dequeued = 2
  /\ Len(transcribed_chunks) = 1
  /\ Len(transcription_queue) = 1

\* C4: no captured audio buffer is in more than one segment put on the
\* transcription queue, whatever the interleaving of the audio callback with
\* stop_recording().
C4_NoBufferEnqueuedTwice ==
  \A i, j \in SegmentPuts :
    i # j => ChunkIds(put_log[i].data) \cap ChunkIds(put_log[j].data) = {}

\* on_activate is in its stop path: stop_recording, the drain, the aggregation
Stopping ==
  \/ pc["key"] \in {"stop_check", "stop_set", "stop_if", "stop_concat",
                    "stop_put", "join", "aggregate"}
  \/ pc["key"] \in {"reset_buffer", "reset_silence", "reset_flag"}
       /\ ret["key"] = "join"

\* C6: stopping a recording eventually returns, even if a backend
\* transcription call never returns.
C6_StopEventuallyReturns == Stopping ~> (pc["key"] = "idle")

\* main has left its keep-alive loop: it has seen the exit flag
ShuttingDown == pc["main"] # "loop"

\* C7: once main has left its keep-alive loop it reaches the end of its finally
\* block (sys.exit), whether or not the worker thread ever terminates.
C7_ShutdownCompletes == ShuttingDown ~> (pc["main"] = "exited")

\* main has exited while the worker is in a backend call that never returns
C7_Witness ==
  /\ pc["main"] = "exited"
  /\ pc["worker"] = "hung"

\* the on_chunk calls of the current session made with is_final=True
Finals == { i \in 1..Len(on_chunk_log) : on_chunk_log[i].is_final }

\* AudioManager.stop_streaming has returned for the current session
ManagerStopped == chunks_at_stop >= 0

\* C5: in a streaming session every chunk handed to on_streaming_chunk, the
\* is_final=True chunk included, has been passed to the backend's stream_chunk
\* when finalize_streaming is called, however far the worker lags behind.
C5_EveryChunkStreamed == finalized => stream_chunks = on_chunk_log

RECURSIVE SumSeq(_)
\* the sum of a sequence of numbers
SumSeq(s) == IF s = <<>> THEN 0 ELSE Head(s) + SumSeq(Tail(s))

\* stop_streaming has made its deliveries and is about to reset the
\* streaming state
FeedDelivered == pc["key"] = "ss_reset_mode"

\* k calls with is_final=False of exactly c samples each, then one call with
\* is_final=True carrying r samples
KChunksThenRemainder(log, c, k, r) ==
  /\ Len(log) = k + 1
  /\ \A i \in 1..k : ~log[i].is_final /\ NpLen(log[i].data) = c
  /\ log[k + 1].is_final
  /\ NpLen(log[k + 1].data) = r

\* the calls the claim expects for the buffers fed, C being the chunk size
ExpectedCalls ==
  KChunksThenRemainder(on_chunk_log, streaming_chunk_size_samples,
                       SumSeq(fed) \div streaming_chunk_size_samples,
                       SumSeq(fed) % streaming_chunk_size_samples)

\* the samples fed are k*C + r with 0 < r < C
HasRemainder == SumSeq(fed) % streaming_chunk_size_samples > 0

\* C10 as claimed: feeding k*C + r samples (0 < r < C), however divided into
\* callback buffers, then stopping, yields exactly k is_final=False calls of
\* C samples and then one is_final=True call with the r remaining samples.
C10_ChunksHoweverDivided ==
  (FeedDelivered /\ HasRemainder) => ExpectedCalls

\* C10 as amended: the same, for samples divided into callback buffers of at
\* most C samples each.
C10_ChunksOfBuffersUpToC ==
  (/\ FeedDelivered
   /\ HasRemainder
   /\ \A i \in 1..Len(fed) : fed[i] <= streaming_chunk_size_samples)
    => ExpectedCalls

\* 3 * 8960 + 500 samples fed in four buffers of at most 8960 samples, stopped:
\* three chunks and the 500-sample final call
C10_Witness ==
  /\ FeedDelivered
  /\ streaming_chunk_size_samples = 8960
  /\ SumSeq(fed) = 3 * 8960 + 500
  /\ \A i \in 1..Len(fed) : fed[i] <= 8960
  /\ Len(on_chunk_log) = 4
  /\ on_chunk_log[4].is_final

\* --------------------------------------------- claims on segmentation
\* the segments put since the call in progress, or the last call, began
PutsSinceCall == SubSeq(put_log, call.puts + 1, Len(put_log))

\* a recording started by start_recording while none was active is fed, and
\* no callback and no call is running
Recording ==
  /\ call.op = "start_recording"
  /\ ~call.active
  /\ pc["key"] = "idle"
  /\ pc["audio"] = "idle"

\* the buffers fed are of d frames each: 2 s at or above the threshold, then
\* 1.5 s below it
SpeechThenSilence(d) ==
  /\ DurationMs(Len(heard) * d) = 3500
  /\ \A i \in 1..Len(heard) :
       /\ heard[i].frames = d
       /\ (heard[i].rms >= RMS_THRESHOLD_MILLI) <=> (DurationMs(i * d) <= 2000)

\* the segmentation state is Idle
SegmentationIdle ==
  /\ audio_buffer = <<>>
  /\ ~is_potentially_speaking
  /\ current_silence_s = 0

\* exactly one segment was enqueued, of ms milliseconds to within one buffer
\* of d frames
OneSegmentOf(ms, d) ==
  /\ Len(PutsSinceCall) = 1
  /\ DurationMs(NpLen(PutsSinceCall[1].data)) >= ms - DurationMs(d)
  /\ DurationMs(NpLen(PutsSinceCall[1].data)) <= ms + DurationMs(d)

\* C11 as claimed: in queue mode with uniform buffers, 2 s of audio at or
\* above the threshold followed by 1.5 s below it produces exactly one
\* enqueued segment of 3.5 s to within one buffer period, and the
\* segmentation state is Idle afterwards.
C11_OneSegmentOfAllAudio ==
  \A d \in FrameSizes :
    (Recording /\ SpeechThenSilence(d)) =>
       (OneSegmentOf(3500, d) /\ SegmentationIdle)

\* C11 as amended: the one segment enqueued is of 3.0 s to within one buffer
\* period (the 2 s of speech and the silent buffers before the one that
\* completes SILENCE_DURATION_S), and the segmentation state is Idle
\* afterwards.
C11_OneSegmentUpToSilenceThreshold ==
  \A d \in FrameSizes :
    (Recording /\ SpeechThenSilence(d)) =>
       (OneSegmentOf(3000, d) /\ SegmentationIdle)

\* 2 s of speech and 1.5 s of silence in 0.25 s buffers were fed: one segment
\* of 2.75 s was enqueued
C11_Witness ==
  /\ Recording
  /\ SpeechThenSilence(4000)
  /\ Len(PutsSinceCall) = 1
  /\ NpLen(PutsSinceCall[1].data) = 44000

\* C12: while every buffer fed to a queue-mode recording is below the RMS
\* threshold, no segment is enqueued and the pending audio buffer is empty
\* after every callback.
C12_SilenceProducesNothing ==
  (/\ call.op = "start_recording"
   /\ ~call.active
   /\ \A i \in 1..Len(heard) : heard[i].rms < RMS_THRESHOLD_MILLI)
    => (PutsSinceCall = <<>> /\ (pc["audio"] = "idle" => audio_buffer = <<>>))

\* three buffers below the threshold, 1.5 s in all, were fed to a recording
C12_Witness ==
  /\ Recording
  /\ Len(heard) = 3
  /\ \A i \in 1..Len(heard) : heard[i].rms < RMS_THRESHOLD_MILLI /\ heard[i].frames = 8000
  /\ put_log = <<>>

\* the array is shorter than MIN_CHUNK_DURATION_S
TooShort(a) == DurationMs(NpLen(a)) < MIN_CHUNK_DURATION_MS

\* the threads that flush, the statement at which each has its segment, and
\* the last statement of each flush
Flushers == {"audio", "key"}
AtSegment(t) == pc[t] = (IF t = "audio" THEN "flush_concat" ELSE "stop_concat")
FlushEnds(t) ==
  /\ pc[t] = (IF t = "audio" THEN "flush_reset_flag" ELSE "reset_flag")
  /\ pc'[t] = "idle"

\* C13: a segment shorter than MIN_CHUNK_DURATION_S is never put on the
\* transcription queue, on the silence-timeout path of the callback and on
\* the final flush of stop_recording: from the statement that has the short
\* segment the flush goes on without a put, and it ends with the pending
\* buffer empty, the silence at 0 and is_potentially_speaking false.
C13_ShortSegmentDiscarded ==
  [][/\ put_log' # put_log => ~TooShort(put_log'[Len(put_log')].data)
     /\ \A t \in Flushers :
          /\ (AtSegment(t) /\ TooShort(NpConcatenate(audio_buffer)) /\ pc'[t] # pc[t])
               => (put_log' = put_log /\ pc'[t] \notin {"flush_put", "stop_put"})
          /\ FlushEnds(t) => SegmentationIdle']_vars

\* a 0.25 s segment was discarded by the callback at the silence timeout, and
\* a later one by stop_recording: nothing was enqueued
C13_Witness ==
  /\ pc["key"] = "idle"
  /\ pc["audio"] = "idle"
  /\ call.op = "stop_recording"
  /\ segment_data["audio"] # <<>> /\ TooShort(segment_data["audio"])
  /\ segment_data["key"] # <<>> /\ TooShort(segment_data["key"])
  /\ ChunkIds(segment_data["key"]) # ChunkIds(segment_data["audio"])
  /\ put_log = <<>>
  /\ SegmentationIdle

\* ------------------------------------------- claims on the interface
\* the state of a recording: the AudioManager's, the queues with what was put
\* on them, the streaming globals, the backend's streaming state, the chunks
\* delivered and the collected results
recordingState ==
  <<is_collecting, audio_buffer, current_silence_s, is_potentially_speaking,
    streaming_mode, streaming_buffer, streaming_callback,
    streaming_chunk_size_samples, transcription_queue, unfinished_tasks,
    put_log, streaming_queue, streaming_stop_event, stream_chunks, finalized,
    on_chunk_log, sput_log, transcribed_chunks>>

\* a stop call is in progress that follows a stop call on the same interface
\* (AudioManager, or the streaming module)
SecondStop ==
  /\ call.op \in StopOps
  /\ call.prev \in StopOps
  /\ (call.op = "stop_streaming") <=> (call.prev = "stop_streaming")

\* C14: calling stop twice in a row is a no-op the second time: no step of
\* the second stop_recording() or stop_streaming() enqueues anything,
\* delivers a chunk, raises or changes the recording state.
C14_SecondStopIsNoOp ==
  [][(SecondStop /\ pc["key"] # "idle" /\ pc'["key"] # pc["key"])
       => (UNCHANGED recordingState /\ pc'["key"] # "crashed")]_vars

\* a streaming session that delivered its final chunk was stopped by
\* streaming.stop_streaming(), which was then called again and has returned
C14_Witness ==
  /\ SecondStop
  /\ call.op = "stop_streaming"
  /\ pc["key"] = "idle"
  /\ finalized
  /\ \E i \in 1..Len(on_chunk_log) : on_chunk_log[i].is_final

\* a start call is in progress that was made while a recording was active
StartWhileActive ==
  /\ call.op \in StartOps
  /\ call.active
  /\ pc["key"] # "idle"

\* C15: starting a recording while one is active is rejected and changes
\* nothing: the pending audio buffer, the silence accumulation, the streaming
\* buffer, the mode, the worker and queue and the collected results of the
\* active session are preserved.
C15_StartWhileActiveChangesNothing ==
  [][(StartWhileActive /\ pc'["key"] # pc["key"])
       => UNCHANGED recordingState]_vars

\* the ids of the buffers that passed the gate since the session's clear
SessionIds == (n_callbacks - Len(heard) + 1)..n_callbacks

\* the ids of the buffers a sequence of texts names
RECURSIVE TextIds(_)
TextIds(chunks) ==
  IF chunks = <<>> THEN {} ELSE {Head(chunks)[1]} \cup TextIds(Tail(chunks))

\* C16: the text aggregated when a session stops is built only from audio
\* captured during that session: the results list is cleared at each start,
\* every text appended to it after that clear is the text of audio captured
\* since the clear, and so is the text aggregated at the stop.
C16_ResultsOnlyOfThisSession ==
  [][/\ (pc["key"] = "start_clear" /\ pc'["key"] # "start_clear")
          => transcribed_chunks' = <<>>
     /\ Len(transcribed_chunks') > Len(transcribed_chunks)
          => TextIds(transcribed_chunks') \subseteq SessionIds'
     /\ (pc["key"] = "aggregate" /\ pc'["key"] # "aggregate")
          => { final_text'[i] : i \in 1..Len(final_text') } \subseteq SessionIds']_vars


\* a list selection is handled that asks for another device than the active
\* one
DeviceSwapRequested ==
  /\ n_selections' # n_selections
  /\ ulocal'["dev"].selected # loaded_device

\* C17: a device hot-swap requested while a recording is active is rejected
\* and leaves the active input stream, AudioManager.input_device,
\* app_state.loaded_device and the selected-device preference unchanged.
C17_DeviceSwapRejectedWhileRecording ==
  [][(is_collecting /\ DeviceSwapRequested)
       => /\ ulocal'["dev"].result = "recording"
          /\ UNCHANGED <<current_stream, input_device, loaded_device,
                         selected_device, stream_open>>]_vars

\* C18: a model swap requested while a recording is active is rejected as
\* busy and leaves the loaded model, state.model_type and state.model_loaded
\* unchanged, and state.stt_model is never unloaded while
\* audio_manager.is_collecting is true.
C18_ModelSwapRejectedWhileRecording ==
  [][/\ (is_collecting /\ n_selections' # n_selections)
          => UNCHANGED <<modelVars, loaded_model, upc, model_swap_lock>>
     /\ (is_collecting /\ stt_model # NoModel) => stt_model' # NoModel]_vars

\* the tasks whose hot_swap_model holds the lock and has not returned
SwapsInProgress == { t \in ModelTasks : upc[t] # "idle" }

\* C19: at most one model swap is in progress at any time: a hot_swap_model
\* call that arrives while another call holds the swap lock returns False at
\* once, without waiting and without modifying state.stt_model,
\* state.model_type or state.model_loaded.
C19_OneSwapAtATime ==
  [][/\ Cardinality(SwapsInProgress') <= 1
     /\ (model_swap_lock /\ n_selections' # n_selections)
          => /\ UNCHANGED <<modelVars, upc, model_swap_lock,
                            is_loading_model>>
             /\ \E t \in ModelTasks :
                  /\ upc[t] = "idle"
                  /\ ulocal'[t] = Returned(ulocal'[t].selected, "False")]_vars

\* a call was turned away at the lock while the swap of the other task,
\* which has unloaded the old model, was in progress
C19_Witness ==
  \E t, u \in ModelTasks :
    /\ upc[t] = "get_create"
    /\ model_swap_lock
    /\ upc[u] = "idle"
    /\ ulocal[u] = Returned(ulocal[u].selected, "False")
    /\ ulocal[u].selected # "None"

\* on_activate's start gates let a recording start
CanStartRecording ==
  ~((HasAppStateRef /\ is_loading_model) \/ ~model_loaded)

\* C20: when loading the new model fails during a hot swap, the swap is
\* rolled back: once it has returned, state.stt_model is the old model,
\* state.model_loaded is true, state.model_type is the old type, and a
\* recording can be started.
C20_FailedLoadRolledBack ==
  [][\A t \in ModelTasks :
       (upc[t] = "finally" /\ upc'[t] = "idle" /\ ulocal[t].result = "False")
         => /\ stt_model' = ulocal[t].old_model
            /\ model_loaded'
            /\ model_type' = ulocal[t].old_model_type
            /\ CanStartRecording']_vars

\* C21: when opening the new device fails in restart_input_stream, the
\* manager ends with a started input stream on the default device
\* (input_device = None, current_stream = the fallback stream) and the
\* original error is raised to the caller; the system is not left without an
\* input stream.
C21_FallbackStreamAfterFailedOpen ==
  [][(DeviceSwapRequested /\ ulocal'["dev"].result = "failed_to_switch")
       => /\ stream_open'
          /\ input_device' = "None"
          /\ current_stream' = [device |-> "None",
                                opened |-> current_stream.opened + 1]]_vars

FirstSentinel ==
  IF \E i \in 1..Len(put_log) : put_log[i].none
    THEN CHOOSE i \in 1..Len(put_log) :
           /\ put_log[i].none
           /\ \A j \in 1..(i - 1) : ~put_log[j].none
    ELSE 0

\* the items put after the first sentinel
AfterSentinel == SubSeq(put_log, FirstSentinel + 1, Len(put_log))

\* the buffers that open the segments put before the first sentinel
IdsBeforeSentinel ==
  { put_log[i].data[1].id :
      i \in { j \in 1..Len(put_log) :
                /\ ~put_log[j].none
                /\ put_log[j].data # <<>>
                /\ FirstSentinel # 0 => j < FirstSentinel } }

\* C23: the shutdown sentinel is the last item the worker dequeues: when the
\* worker has exited it holds the first sentinel put, every item put before
\* it has been taken and acknowledged, and what was put after it is still
\* on the queue; the sentinel is never passed to the backend, and every text
\* in the results is that of a segment put before the sentinel.
C23_SentinelIsLastDequeued ==
  /\ pc["worker"] = "exited" =>
       /\ audio_data.none
       /\ FirstSentinel # 0
       /\ transcription_queue = AfterSentinel
       /\ unfinished_tasks = Len(AfterSentinel)
  /\ pc["worker"] \in {"write", "transcribe", "append", "done", "hung"} =>
       ~audio_data.none
  /\ TextIds(transcribed_chunks) \subseteq IdsBeforeSentinel

\* the exit hotkey stopped an active recording: the final segment flushed by
\* exit_app was transcribed, the worker exited on the sentinel of exit_app,
\* and the sentinel main put after it is left on the queue
C23_Witness ==
  /\ pc["worker"] = "exited"
  /\ pc["main"] = "exited"
  /\ FirstSentinel = 2
  /\ Len(transcribed_chunks) = 1
  /\ Len(transcription_queue) = 1

\* the None sentinels put on the transcription queue
SentinelPuts == { i \in 1..Len(put_log) : put_log[i].none }

\* C24: on every shutdown path exactly one None sentinel is enqueued on the
\* transcription queue for the one worker thread: never more than one, and
\* one when main has finished.
C24_ExactlyOneSentinel ==
  /\ Cardinality(SentinelPuts) <= 1
  /\ pc["main"] = "exited" => Cardinality(SentinelPuts) = 1

\* the threads that call on_streaming_chunk: the audio callback, and the key
\* listener inside stop_streaming
ChunkCallers == {"audio", "key"}

\* C25: on_streaming_chunk never blocks the audio callback thread: its put is
\* a step it can always take, and when the streaming queue already holds
\* its maximum of 50 items it returns without enqueuing, leaves the queue
\* as it is and logs the drop as a warning.
C25_FullQueueDropsWithWarning ==
  [][\A t \in ChunkCallers :
       /\ pc'[t] = "osc_put" => (ENABLED OnStreamingChunkPut(t))'
       /\ (/\ pc[t] = "osc_put"
           /\ pc'[t] # "osc_put"
           /\ streaming_queue.exists
           /\ Len(streaming_queue.items) >= STREAM_QUEUE_MAXSIZE)
          => /\ pc'[t] = AfterOnChunk(t)
             /\ streaming_queue' = streaming_queue
             /\ warnings' =
                  Append(warnings, "queue full, dropping chunk")]_vars

\* the audio callback found the queue full and dropped its chunk
C25_Witness ==
  /\ pc["audio"] = "idle"
  /\ Len(streaming_queue.items) = STREAM_QUEUE_MAXSIZE
  /\ Len(on_chunk_log) > Len(sput_log)
  /\ warnings # <<>>
  /\ warnings[Len(warnings)] = "queue full, dropping chunk"

\* C26: an error raised while the audio callback hands audio onward (the put
\* of a segment, or the call of on_chunk) is caught: the callback is never
\* left by it, a failed put is followed by the resets of a flush with the
\* queue as it was, a failed on_chunk call ends the callback, and the
\* callback is ready for the next buffer
HandOffErrors == {"Error putting segment onto queue",
                  "Error in streaming callback"}

Logged(msgs) == { warnings[i] : i \in 1..Len(warnings) } \cap msgs

C26_HandOffErrorsCaught ==
  [][/\ pc'["audio"] # "crashed"
     /\ warnings' = Append(warnings, "Error putting segment onto queue")
        => /\ pc'["audio"] = "flush_reset_buffer"
           /\ UNCHANGED <<transcription_queue, put_log>>
     /\ warnings' = Append(warnings, "Error in streaming callback")
        => /\ pc'["audio"] = "idle"
           /\ UNCHANGED <<streaming_queue, streaming_buffer>>]_vars

\* both hand-offs have failed, the callbacks have returned, and a later
\* buffer has been cut into a chunk that on_chunk is putting on the queue
C26_Witness ==
  /\ Logged(HandOffErrors) = HandOffErrors
  /\ pc["audio"] = "osc_put"
  /\ osc_arg["audio"] # NoArg

\* the duration of the buffers below the threshold at the end of h
RECURSIVE TrailingSilenceMs(_)
TrailingSilenceMs(h) ==
  IF h = <<>> \/ IsSpeechChunk(h[Len(h)].rms)
    THEN 0
    ELSE DurationMs(h[Len(h)].frames)
           + TrailingSilenceMs(SubSeq(h, 1, Len(h) - 1))

\* the ids of the buffers that are pending or in a segment put on the queue
KeptIds(buffer, puts) ==
  ChunkIds(NpConcatenate(buffer))
    \cup UNION { ChunkIds(puts[i].data) : i \in 1..Len(puts) }

\* C27: the callback flushes on silence only after SILENCE_DURATION_S of
\* consecutive buffers below the threshold; every buffer at or above the
\* threshold leaves the accumulated silence at 0; every buffer below the
\* threshold received while speaking adds its duration to the accumulated
\* silence and is appended to the pending buffer (it is pending, or in the
\* segment flushed, when the callback returns).
C27_SilenceCountedAndAppended ==
  [][/\ (pc["audio"] = "silence_check" /\ pc'["audio"] = "flush_if")
          => TrailingSilenceMs(heard) >= SILENCE_DURATION_MS
     /\ (pc["audio"] = "speech_flag" /\ pc'["audio"] = "idle")
          => current_silence_s' = 0
     /\ (pc["audio"] = "silence_add" /\ pc'["audio"] # "silence_add")
          => current_silence_s' = current_silence_s + DurationMs(cb.frames)
     /\ (/\ pc["audio"] \in {"silence_append", "flush_reset_flag"}
         /\ pc'["audio"] = "idle")
          => ChunkIds(cb.chunk) \subseteq KeptIds(audio_buffer', put_log')]_vars

\* C28: in queue mode, whenever no callback is running the pending audio
\* buffer is non-empty only if is_potentially_speaking is true; the buffer,
\* the silence counter and the flag are reset (empty, 0, false) when a flush
\* ends, when start_recording has set is_collecting, and whenever no
\* recording is active and no call or callback is running (after every stop).
C28_PendingOnlyWhileSpeaking ==
  [][/\ (pc'["audio"] = "idle" /\ audio_buffer' # <<>>)
          => is_potentially_speaking'
     /\ (pc'["audio"] = "idle" /\ pc'["key"] = "idle" /\ ~is_collecting')
          => SegmentationIdle'
     /\ (pc["audio"] = "flush_reset_flag" /\ pc'["audio"] = "idle")
          => SegmentationIdle'
     /\ (pc["key"] = "start_set" /\ pc'["key"] = "idle")
          => SegmentationIdle']_vars

\* the samples of an array are those of captured buffers in arrival order
InArrivalOrder(a) == \A i, j \in 1..Len(a) : i < j => a[i].id < a[j].id

\* C29: a stop_recording() call on an active recording puts at most one
\* segment; whenever the pending buffers total at least MIN_CHUNK_DURATION_S
\* it goes on to the put, whatever the accumulated silence, and the segment
\* put is exactly the pending buffers in arrival order; when the call returns
\* is_collecting is false and the segmentation state is Idle.
C29_StopFlushesPending ==
  [][LET pending == NpConcatenate(audio_buffer) IN
     (call.op = "stop_recording" /\ call.active /\ pc'["key"] # pc["key"]) =>
       /\ (pc["key"] = "stop_if" /\ LongEnough(pending))
            => pc'["key"] = "stop_concat"
       /\ (pc["key"] = "stop_concat" /\ LongEnough(pending))
            => pc'["key"] = "stop_put"
       /\ pc["key"] = "stop_put"
            => /\ put_log' = Append(put_log, Segment(pending))
               /\ InArrivalOrder(pending)
       /\ put_log' # put_log
            => (pc["key"] = "stop_put" /\ Len(put_log) = call.puts)
       /\ pc'["key"] = "idle"
            => /\ ~is_collecting'
               /\ SegmentationIdle'
               /\ Len(PutsSinceCall') <= 1]_vars

\* stop_recording has put the two or more pending buffers as one segment
\* while silence had accumulated
C29_Witness ==
  /\ call.op = "stop_recording"
  /\ call.active
  /\ pc["key"] = "reset_buffer"
  /\ current_silence_s > 0
  /\ Len(audio_buffer) >= 2
  /\ Len(PutsSinceCall) = 1
  /\ PutsSinceCall[1] = Segment(NpConcatenate(audio_buffer))

\* C30: while the callback processes a buffer whose rms is NaN or infinite
\* it does not raise, it does not take the branch of a buffer at or above
\* the threshold (which sets the silence to 0), and it does not set
\* is_potentially_speaking.
C30_GlitchIsBelowThreshold ==
  [][(/\ cb.rms \in {NaN, Inf}
      /\ pc["audio"] # "idle"
      /\ pc'["audio"] # pc["audio"])
       => /\ pc'["audio"] \notin {"crashed", "speech_append"}
          /\ pc["audio"] = "speech_silence"
               => current_silence_s' = current_silence_s
          /\ ~is_potentially_speaking => ~is_potentially_speaking']_vars

\* the texts of the segments put that hold audio of the current session, in
\* the order of the puts
RECURSIVE SessionTexts(_)
SessionTexts(puts) ==
  IF puts = <<>> THEN <<>>
  ELSE IF ~Head(puts).none /\ ChunkIds(Head(puts).data) \subseteq SessionIds
    THEN <<BackendText(Head(puts).data)>> \o SessionTexts(Tail(puts))
    ELSE SessionTexts(Tail(puts))

\* the texts of chunks are texts of all, in the order they have in all
InOrderOf(chunks, all) ==
  \E f \in [1..Len(chunks) -> 1..Len(all)] :
    /\ \A i \in 1..Len(chunks) : chunks[i] = all[f[i]]
    /\ \A i, j \in 1..Len(chunks) : i < j => f[i] < f[j]

ChunkPending ==
  \/ \E i \in 1..Len(streaming_queue.items) : ~streaming_queue.items[i].none
  \/ pc["sworker"] \in {"sw_stream", "sw_text", "sw_done"}

\* C32: stop_streaming calls finalize_streaming only when no chunk is queued
\* or being processed, and once finalize_streaming has been called no chunk
\* of the session is passed to stream_chunk.
C32_FinalizeAfterDrain ==
  [][/\ (pc["key"] = "st_finalize" /\ pc'["key"] # "st_finalize")
          => ~ChunkPending
     /\ (finalized /\ finalized')
          => stream_chunks' = stream_chunks]_vars

\* the samples of an array, as runs that are as long as they can be
RECURSIVE Samples(_)
Samples(a) ==
  IF Len(a) <= 1 THEN a
  ELSE IF a[1].id = a[2].id /\ a[1].off + a[1].n = a[2].off
    THEN Samples(<< [a[1] EXCEPT !.n = a[1].n + a[2].n] >> \o Tail(Tail(a)))
    ELSE << a[1] >> \o Samples(Tail(a))

\* the chunks passed to on_chunk in the session, one after another
Delivered ==
  NpConcatenate([i \in 1..Len(on_chunk_log) |-> on_chunk_log[i].data])

\* the buffers fed in the session, one after another
FedBuffers ==
  NpConcatenate([i \in 1..Len(fed) |->
                   NewChunk(n_callbacks - Len(fed) + i, fed[i])])

\* C33: when stop_streaming has made its deliveries for a session fed one
\* buffer after another, the chunks passed to on_chunk, the is_final=False
\* ones first and the final one last, hold one after another exactly the
\* samples of the buffers fed, in the order they were fed.
C33_ChunksAreTheInput ==
  FeedDelivered =>
    /\ Samples(Delivered) = Samples(FedBuffers)
    /\ \A i \in 1..Len(on_chunk_log) - 1 : ~on_chunk_log[i].is_final

\* three buffers were fed and delivered as two chunks that each span two
\* buffers, and a final chunk
C33_Witness ==
  /\ FeedDelivered
  /\ Len(fed) = 3
  /\ Len(on_chunk_log) = 3
  /\ Len(on_chunk_log[1].data) = 2
  /\ Len(on_chunk_log[2].data) = 2
  /\ on_chunk_log[3].is_final

Swapping(t) == upc[t] # "idle"

\* C35: every hot_swap_model call that acquired the swap lock releases it and
\* clears is_loading_model before it returns, however its try ended: the lock
\* is held and the flag set only while some call is between its acquire and
\* its return, and a call is turned away only while another call is there.
C35_LockReleasedOnEveryOutcome ==
  [][/\ (model_swap_lock' \/ is_loading_model')
          => \E t \in ModelTasks : Swapping(t)'
     /\ \A t \in ModelTasks :
          (~Swapping(t) /\ ~Swapping(t)' /\ ulocal'[t] # ulocal[t])
            => \E u \in ModelTasks \ {t} : Swapping(u)]_vars

\* C35 witness: a swap ended by an exception before the old model was
\* unloaded, and a later swap that got the lock and succeeded.
C35_Witness ==
  /\ \A t \in ModelTasks : ~Swapping(t)
  /\ ulocal["ui1"].result = "False"
  /\ ulocal["ui1"].old_model = NoModel
  /\ ulocal["ui2"].result = "True"
  /\ ~model_swap_lock
  /\ ~is_loading_model

\* the step is an add_entry call
AddEntryCalled == add_call'.n # add_call.n

\* the call stored exactly one new entry, the stripped text under the id it
\* returned, and that id is greater than every id returned earlier
StoredOne ==
  /\ ~add_call'.none
  /\ history_rows' =
       Append(history_rows,
              [id |-> add_call'.id, text |-> Strip(add_call'.text)])
  /\ \A i \in returned_ids' : add_call'.id > i

\* the call returned None and left the stored history unchanged
StoredNone == add_call'.none /\ history_rows' = history_rows

GetModelEnded(t) == upc[t] # "got" /\ upc'[t] = "got"

\* C38: whenever get_model() raises ModelLoadError, state.stt_model is None
\* and state.model_loaded is false afterwards, and a get_model() call that
\* returns without loading returns an instance whose weights were loaded.
C38_FailedLoadLeavesNoModel ==
  [][\A t \in ModelTasks :
       GetModelEnded(t) =>
         IF ulocal'[t].new_model = NoModel
           THEN stt_model' = NoModel /\ ~model_loaded'
           ELSE ulocal'[t].new_model.weights]_vars

\* on_activate has passed its gates and starts a recording
RecordingStarts ==
  pc["key"] = "idle" /\ ~is_collecting /\ pc'["key"] = "start_clear"

\* C37: no recording is active while a model swap is in progress or while no
\* model is loaded: on_activate does not start a recording when
\* is_loading_model is true or model_loaded is false, and after every step of
\* the key listener and of hot_swap_model on the event loop a recording that
\* is active finds is_loading_model false and model_loaded true.
C37_NoRecordingDuringSwap ==
  [][/\ RecordingStarts => (~is_loading_model /\ model_loaded)
     /\ is_collecting' => (~is_loading_model' /\ model_loaded')]_vars

\* what hot_swap_device reports
DeviceResults == {DeviceResult(o) : o \in DeviceOutcomes}

\* the step is a hot_swap_device attempt that leaves an input stream open
DeviceSwapAttempted ==
  /\ n_selections' # n_selections
  /\ ulocal'["dev"].result \in DeviceResults
  /\ stream_open'

\* C39: after every hot_swap_device attempt (success, validation failure, or
\* stream-restart failure with fallback), app_state.loaded_device is the
\* device the AudioManager's current input stream is using
\* (AudioManager.input_device).
C39_LoadedDeviceIsStreamDevice ==
  [][DeviceSwapAttempted
       => /\ loaded_device' = input_device'
          /\ loaded_device' = current_stream'.device]_vars

\* C40: with SILENCE_DURATION_S = 1.0, MIN_CHUNK_DURATION_S = 0.5 and
\* equal-length buffers, every segment the callback has at the silence
\* timeout is at least MIN_CHUNK_DURATION_S long and is put on the
\* transcription queue; a segment is discarded for its duration by
\* stop_recording only.
C40_SilenceFlushIsEnqueued ==
  [][/\ (AtSegment("audio") /\ pc'["audio"] # pc["audio"])
          => /\ ~TooShort(NpConcatenate(audio_buffer))
             /\ pc'["audio"] = "flush_put"
     /\ (pc["audio"] = "flush_put" /\ pc'["audio"] # "flush_put")
          => put_log' = Append(put_log, Segment(segment_data["audio"]))
     /\ \A t \in Flushers :
          (AtSegment(t) /\ TooShort(NpConcatenate(audio_buffer))
             /\ pc'[t] # pc[t]) => t = "key"]_vars

\* C40 witness: with 0.25 s buffers a segment was enqueued at the silence
\* timeout, and the 0.25 s that followed it were discarded by stop_recording.
C40_Witness ==
  /\ pc["key"] = "idle"
  /\ pc["audio"] = "idle"
  /\ call.op = "stop_recording"
  /\ AllOfSize(4000)
  /\ Len(put_log) = 1
  /\ put_log[1].data = segment_data["audio"]
  /\ ~TooShort(segment_data["audio"])
  /\ segment_data["key"] # <<>>
  /\ TooShort(segment_data["key"])

====
